---------------------------- MODULE Spec2Model ----------------------------
(***************************************************************************)
(* Transient ring effects of ThreeBoiler: the swarm manager                *)
(* (IcoRingsManager, src/src/effects/IcoRing.ts) and the volumetric        *)
(* manager (ShockRingManager, src/src/effects/ShockRing.ts).               *)
(*                                                                         *)
(* Units.  Seconds are counted in ticks of 0.01 s (0.06 s = 6, 0.2 s = 20, *)
(* 6.0 s = 600); life fractions (fadeStart, fadeEnd, growthDelay,          *)
(* collapseAt, recoverAt) in thousandths (0.6 = 600, 0.001 = 1); lengths   *)
(* of the pose (position, spawnDistance) in millimetres and speeds in      *)
(* millimetres per tick (0.7 m/s = 7); ring radii in 1/300 m, which keeps  *)
(* the thirds and the 0.55 factor of spawnAssembly exact (3.5 m = 1050,    *)
(* 0.05 m = 15); growthExponent in hundredths (2.0 = 200); a requested     *)
(* sub-instance count in tenths (84 = 840, 0.5 = 5), so that Math.floor    *)
(* has something to do.  All comparisons of the source are carried out     *)
(* exactly on these integers.                                              *)
(*                                                                         *)
(* Objects.  Every constructed effect instance is an entry of the `obj'    *)
(* sequence of its manager; its index is its identity, so the length of    *)
(* `obj' is the number of instances ever constructed.  The lists `rings',  *)
(* `pool' hold identities.                                                 *)
(*                                                                         *)
(* Camera.  The camera both managers hold a reference to is the variable   *)
(* `camera'; its orientation is a yaw in quarter turns, so that every      *)
(* direction is an axis of the world.                                      *)
(*                                                                         *)
(* History.  icoHist and shockHist record what the claims speak about and  *)
(* the code does not store: the sum of the dt of all update calls          *)
(* (clock), and per pending request / per spawnAssembly call how often     *)
(* and when it caused a spawn.  They never influence ico or shock.         *)
(*                                                                         *)
(* Sample.  `sample' holds the argument and the value of a curve that is   *)
(* followed on its own, outside any instance (SpecFade).                   *)
(***************************************************************************)
EXTENDS Integers, Sequences, FiniteSets, TLC

VARIABLES variant, camera, ico, shock, icoHist, shockHist, sample

vars == <<variant, camera, ico, shock, icoHist, shockHist, sample>>

-----------------------------------------------------------------------------
(* Bounds of the exploration *)

\* update is not called once the summed dt would exceed MaxTime ticks
MaxTime == 21
\* number of calls made on the manager other than update, plus the number
\* of camera moves, per behaviour
MaxCalls == 2

\* frame deltas handed to update (ticks)
Dts == {3, 4, 20}

-----------------------------------------------------------------------------
(* Helpers standing for JavaScript and three.js operators *)

\* an option that was not given (undefined)
Unset == -1000

\* a vector option that was not given (undefined)
NoVec == <<>>

\* a ?? b
Coalesce(a, b) == IF a = Unset THEN b ELSE a

Max(a, b) == IF a >= b THEN a ELSE b

Min(a, b) == IF a <= b THEN a ELSE b

\* THREE.MathUtils.clamp
ClampBelow(x, lo, hi) == Max(lo, x)

Clamp(x, lo, hi) == Max(lo, Min(hi, x))

\* Math.floor of a count given in tenths
Floor(c) == c \div 10

\* numbers that are no whole multiples of the unit are fractions <<n, d>>
\* with d > 0, kept in lowest terms
RECURSIVE Gcd(_, _)
Gcd(a, b) == IF b = 0 THEN a ELSE Gcd(b, a % b)

Abs(a) == IF a < 0 THEN -a ELSE a

Frac(n, d) ==
    LET g == Gcd(Abs(n), d)
    IN <<n \div g, d \div g>>

FracLess(x, y) == x[1] * y[2] < y[1] * x[2]

FracLeq(x, y) == x[1] * y[2] <= y[1] * x[2]

FracMin(x, y) == IF FracLeq(x, y) THEN x ELSE y

FracMax(x, y) == IF FracLeq(x, y) THEN y ELSE x

\* sum and difference over the least common denominator
FracAdd(x, y) ==
    LET g == Gcd(x[2], y[2])
    IN Frac(x[1] * (y[2] \div g) + y[1] * (x[2] \div g), (x[2] \div g) * y[2])

FracSub(x, y) == FracAdd(x, <<-y[1], y[2]>>)

\* the product, with the common factors taken out before multiplying
FracMul(x, y) ==
    LET g1 == Gcd(Abs(x[1]), y[2])
        g2 == Gcd(Abs(y[1]), x[2])
    IN Frac((x[1] \div g1) * (y[1] \div g2), (x[2] \div g2) * (y[2] \div g1))

\* x / y for y > 0
FracDiv(x, y) == FracMul(x, <<y[2], y[1]>>)

\* Math.pow(x, k) for a whole k >= 0
RECURSIVE FracPow(_, _)
FracPow(x, k) == IF k = 0 THEN <<1, 1>> ELSE FracMul(x, FracPow(x, k - 1))

\* Math.pow(x, e) for 0 <= x <= 1 and an exponent e > 0 in hundredths:
\* 0 and 1 are fixed by every exponent; another x needs a whole exponent
Pow(x, e) ==
    CASE x[1] = 0     -> <<0, 1>>
      [] x = <<1, 1>> -> <<1, 1>>
      [] e % 100 = 0  -> FracPow(x, e \div 100)

\* 1 - Math.pow(1 - u, 3)
EaseOutCubic(u) == FracSub(<<1, 1>>, FracPow(FracSub(<<1, 1>>, u), 3))

\* THREE.MathUtils.lerp(x, y, t) = (1 - t) * x + t * y
Lerp(x, y, t) == FracAdd(FracMul(FracSub(<<1, 1>>, t), x), FracMul(t, y))

\* Array.prototype.splice(i, 1) with a 1-based index
Splice(s, i) == SubSeq(s, 1, i - 1) \o SubSeq(s, i + 1, Len(s))

\* Array.prototype.pop: the array without its last element
Pop(s) == SubSeq(s, 1, Len(s) - 1)

\* the set of elements of a sequence
Range(s) == {s[i] : i \in DOMAIN s}

\* Vector3.add
VecAdd(a, b) == <<a[1] + b[1], a[2] + b[2], a[3] + b[3]>>

\* Vector3.multiplyScalar
VecScale(a, k) == <<a[1] * k, a[2] * k, a[3] * k>>

\* Vector3.normalize of a vector that lies along an axis of the world
Normalize(a) ==
    [i \in 1..3 |-> IF a[i] > 0 THEN 1 ELSE IF a[i] < 0 THEN -1 ELSE 0]

\* new Vector3(0, 0, 1).applyQuaternion(q), q a yaw of q quarter turns
ZAxis(q) ==
    CASE q % 4 = 0 -> <<0, 0, 1>>
      [] q % 4 = 1 -> <<1, 0, 0>>
      [] q % 4 = 2 -> <<0, 0, -1>>
      [] OTHER     -> <<-1, 0, 0>>

\* Camera.getWorldDirection: a camera looks down its negative z axis
WorldDirection(q) == VecScale(ZAxis(q), -1)

\* the tag of a spawn that no pending request and no assembly caused
NoTag == [rid |-> 0, asm |-> 0, stage |-> 0]

-----------------------------------------------------------------------------
(* Swarm variant: IcoRing *)

\* lifetime floor, Math.max(0.2, ...)
IcoLifeFloor == 20

\* IcoRingsManager.params.lifeSeconds (6.0 s)
IcoParamsLife == 600

\* prewarm size of the pool
poolSize == 6

\* lifeSeconds of the prewarmed instances (1.0 s)
PrewarmLife == 100

\* lifeSeconds requested for the prewarm render instance (0.05 s)
WarmLife == 5

\* delay of both delayed stages of spawnAssembly (0.06 s)
AssemblyDelay == 6

\* IcoRingOptions with no field given
IcoNoOpts ==
    [lifeSeconds |-> Unset, moveSpeed |-> Unset, startRadius |-> Unset,
     endRadius |-> Unset, spawnDistance |-> Unset, count |-> Unset,
     fadeStart |-> Unset, fadeEnd |-> Unset, growthExponent |-> Unset,
     growthDelay |-> Unset, initialPosition |-> NoVec,
     initialQuaternion |-> Unset, direction |-> NoVec, tag |-> NoTag]

\* IcoRingsManager.params
IcoParams ==
    [lifeSeconds |-> IcoParamsLife, startRadius |-> 1050, endRadius |-> 3300,
     moveSpeed |-> 7, count |-> 840, spawnDistance |-> 1500,
     fadeStart |-> 650, fadeEnd |-> 950, growthExponent |-> 200,
     growthDelay |-> 20]

\* the spawn transform of the constructor and of restart: the pose given in
\* opts where it is given, the camera's pose at this moment where it is not
IcoSpawnTransform(opts) ==
    LET capDir    == IF opts.direction # NoVec THEN Normalize(opts.direction)
                     ELSE Normalize(WorldDirection(camera.quaternion))
        spawnDist == Max(0, Coalesce(opts.spawnDistance, 1500))
        camQuat   == Coalesce(opts.initialQuaternion, camera.quaternion)
        camPos    == IF opts.initialPosition # NoVec THEN opts.initialPosition
                     ELSE camera.position
    IN [position |-> VecAdd(camPos, VecScale(capDir, spawnDist)),
        quaternion |-> camQuat,
        moveDir |-> Normalize(ZAxis(camQuat))]

\* new IcoRing(camera, opts): alive and visible, age 0, parameters clamped;
\* the ud* fields are mesh.userData.ico; born, reqLife, reqCount and tag
\* describe the restart that last started the instance
IcoRingNew(opts) ==
    LET life  == Max(IcoLifeFloor, Coalesce(opts.lifeSeconds, 400))
        start == Max(15, Coalesce(opts.startRadius, 900))
        count == Max(1, Floor(Coalesce(opts.count, 800)))
        pose  == IcoSpawnTransform(opts)
    IN [alive |-> TRUE, visible |-> TRUE, age |-> 0,
        lifeSeconds |-> life, udLife |-> life,
        moveSpeed |-> Coalesce(opts.moveSpeed, 0),
        udStartRadius |-> start,
        udEndRadius |-> Max(start, Coalesce(opts.endRadius, 3000)),
        udFadeStart |-> Clamp(Coalesce(opts.fadeStart, 650), 0, 1000),
        udFadeEnd |-> Clamp(Coalesce(opts.fadeEnd, 950), 0, 1000),
        udGrowthExponent |-> Max(10, Coalesce(opts.growthExponent, 200)),
        udGrowthDelay |-> Clamp(Coalesce(opts.growthDelay, 20), 0, 950),
        instanceCount |-> count, capacity |-> count,
        position |-> pose.position, quaternion |-> pose.quaternion,
        moveDir |-> pose.moveDir,
        born |-> 0, reqLife |-> Unset, reqCount |-> Unset, tag |-> NoTag]

\* the move of update(dt): none when moveSpeed is 0
IcoRingMove(o, dt) ==
    IF o.moveSpeed # 0
    THEN VecAdd(o.position, VecScale(o.moveDir, o.moveSpeed * dt))
    ELSE o.position

\* IcoRing.update(dt) with the lifetime test written age > life
IcoRingUpdateStrict(o, dt) ==
    IF ~o.alive THEN o
    ELSE LET age  == o.age + dt
             life == IF o.udLife # 0 THEN o.udLife ELSE o.lifeSeconds
             o1   == [o EXCEPT !.age = age, !.position = IcoRingMove(o, dt)]
         IN IF age > life
            THEN [o1 EXCEPT !.alive = FALSE, !.visible = FALSE]
            ELSE o1

\* IcoRing.update(dt) without the early return on a dead instance
IcoRingUpdateUnguarded(o, dt) ==
    LET age  == o.age + dt
        life == IF o.udLife # 0 THEN o.udLife ELSE o.lifeSeconds
        o1   == [o EXCEPT !.age = age, !.position = IcoRingMove(o, dt)]
    IN IF age >= life
       THEN [o1 EXCEPT !.alive = FALSE, !.visible = FALSE]
       ELSE o1

\* IcoRing.update(dt)
IcoRingUpdate(o, dt) ==
    IF ~o.alive THEN o
    ELSE LET age  == o.age + dt
             life == IF o.udLife # 0 THEN o.udLife ELSE o.lifeSeconds
             o1   == [o EXCEPT !.age = age, !.position = IcoRingMove(o, dt)]
         IN IF age >= life
            THEN [o1 EXCEPT !.alive = FALSE, !.visible = FALSE]
            ELSE o1

\* restart that leaves the age of the previous life in place
IcoRingRestartKeepAge(o, opts, now) ==
    LET targetCount == Max(1, Floor(Coalesce(opts.count, 10 * o.instanceCount)))
        start == Max(15, Coalesce(opts.startRadius, o.udStartRadius))
        pose  == IcoSpawnTransform(opts)
    IN [o EXCEPT !.instanceCount = Min(o.capacity, targetCount),
                 !.udLife = Max(IcoLifeFloor, Coalesce(opts.lifeSeconds, o.udLife)),
                 !.udStartRadius = start,
                 !.udEndRadius = Max(start, Coalesce(opts.endRadius, o.udEndRadius)),
                 !.udGrowthExponent =
                     Max(10, Coalesce(opts.growthExponent, o.udGrowthExponent)),
                 !.udGrowthDelay =
                     Clamp(Coalesce(opts.growthDelay, o.udGrowthDelay), 0, 950),
                 !.udFadeStart = Clamp(Coalesce(opts.fadeStart, o.udFadeStart), 0, 1000),
                 !.udFadeEnd = Clamp(Coalesce(opts.fadeEnd, o.udFadeEnd), 0, 1000),
                 !.moveSpeed = Coalesce(opts.moveSpeed, o.moveSpeed),
                 !.position = pose.position, !.quaternion = pose.quaternion,
                 !.moveDir = pose.moveDir,
                 !.alive = TRUE, !.visible = TRUE,
                 !.born = now, !.reqLife = opts.lifeSeconds,
                 !.reqCount = opts.count, !.tag = opts.tag]

\* restart that takes the requested sub-instance count as it is, unclamped
IcoRingRestartUnclamped(o, opts, now) ==
    LET targetCount == Max(1, Floor(Coalesce(opts.count, 10 * o.instanceCount)))
        start == Max(15, Coalesce(opts.startRadius, o.udStartRadius))
        pose  == IcoSpawnTransform(opts)
    IN [o EXCEPT !.instanceCount = targetCount,
                 !.udLife = Max(IcoLifeFloor, Coalesce(opts.lifeSeconds, o.udLife)),
                 !.udStartRadius = start,
                 !.udEndRadius = Max(start, Coalesce(opts.endRadius, o.udEndRadius)),
                 !.udGrowthExponent =
                     Max(10, Coalesce(opts.growthExponent, o.udGrowthExponent)),
                 !.udGrowthDelay =
                     Clamp(Coalesce(opts.growthDelay, o.udGrowthDelay), 0, 950),
                 !.udFadeStart = Clamp(Coalesce(opts.fadeStart, o.udFadeStart), 0, 1000),
                 !.udFadeEnd = Clamp(Coalesce(opts.fadeEnd, o.udFadeEnd), 0, 1000),
                 !.moveSpeed = Coalesce(opts.moveSpeed, o.moveSpeed),
                 !.position = pose.position, !.quaternion = pose.quaternion,
                 !.moveDir = pose.moveDir,
                 !.age = 0, !.alive = TRUE, !.visible = TRUE,
                 !.born = now, !.reqLife = opts.lifeSeconds,
                 !.reqCount = opts.count, !.tag = opts.tag]

\* IcoRing.restart(camera, opts); now is the history clock at the call
IcoRingRestart(o, opts, now) ==
    LET targetCount == Max(1, Floor(Coalesce(opts.count, 10 * o.instanceCount)))
        start == Max(15, Coalesce(opts.startRadius, o.udStartRadius))
        pose  == IcoSpawnTransform(opts)
    IN [o EXCEPT !.instanceCount = Min(o.capacity, targetCount),
                 !.udLife = Max(IcoLifeFloor, Coalesce(opts.lifeSeconds, o.udLife)),
                 !.udStartRadius = start,
                 !.udEndRadius = Max(start, Coalesce(opts.endRadius, o.udEndRadius)),
                 !.udGrowthExponent =
                     Max(10, Coalesce(opts.growthExponent, o.udGrowthExponent)),
                 !.udGrowthDelay =
                     Clamp(Coalesce(opts.growthDelay, o.udGrowthDelay), 0, 950),
                 !.udFadeStart = Clamp(Coalesce(opts.fadeStart, o.udFadeStart), 0, 1000),
                 !.udFadeEnd = Clamp(Coalesce(opts.fadeEnd, o.udFadeEnd), 0, 1000),
                 !.moveSpeed = Coalesce(opts.moveSpeed, o.moveSpeed),
                 !.position = pose.position, !.quaternion = pose.quaternion,
                 !.moveDir = pose.moveDir,
                 !.age = 0, !.alive = TRUE, !.visible = TRUE,
                 !.born = now, !.reqLife = opts.lifeSeconds,
                 !.reqCount = opts.count, !.tag = opts.tag]

-----------------------------------------------------------------------------
(* Swarm variant: IcoRingsManager.  A manager value m is the record        *)
(* [rings, pool, pending, obj, log]; log lists the tags of the spawns the  *)
(* current call has performed, in the order it performed them.            *)

\* the option table acquire() constructs a fallback instance with
IcoFallbackOpts ==
    [IcoNoOpts EXCEPT !.lifeSeconds = IcoParams.lifeSeconds,
                      !.startRadius = IcoParams.startRadius,
                      !.endRadius = IcoParams.endRadius,
                      !.moveSpeed = IcoParams.moveSpeed,
                      !.count = IcoParams.count,
                      !.spawnDistance = IcoParams.spawnDistance,
                      !.fadeStart = IcoParams.fadeStart,
                      !.fadeEnd = IcoParams.fadeEnd,
                      !.growthExponent = IcoParams.growthExponent,
                      !.growthDelay = IcoParams.growthDelay]

\* acquire() that reads the last pool entry without removing it
IcoAcquireKeep(m) ==
    IF Len(m.pool) > 0
    THEN <<m, m.pool[Len(m.pool)]>>
    ELSE <<[m EXCEPT !.obj = Append(m.obj, IcoRingNew(IcoFallbackOpts))],
           Len(m.obj) + 1>>

\* acquire() that constructs an instance whatever the pool holds
IcoAcquireAlwaysNew(m) ==
    <<[m EXCEPT !.obj = Append(m.obj, IcoRingNew(IcoFallbackOpts))],
      Len(m.obj) + 1>>

\* acquire(): <<manager after the call, identity returned>>
IcoAcquire(m) ==
    IF Len(m.pool) > 0
    THEN <<[m EXCEPT !.pool = Pop(m.pool)], m.pool[Len(m.pool)]>>
    ELSE <<[m EXCEPT !.obj = Append(m.obj, IcoRingNew(IcoFallbackOpts))],
           Len(m.obj) + 1>>

\* release(ring) that hides the instance and forgets to push it
IcoReleaseLost(m, r) ==
    [m EXCEPT !.obj[r].visible = FALSE]

\* release(ring)
IcoRelease(m, r) ==
    [m EXCEPT !.obj[r].visible = FALSE, !.pool = Append(m.pool, r)]

\* the option table spawn(opts) hands to restart: every field it names is
\* opts' or the manager's; it names no direction, initialPosition or
\* initialQuaternion
IcoSpawnTable(opts) ==
    [IcoNoOpts EXCEPT
        !.lifeSeconds = Coalesce(opts.lifeSeconds, IcoParams.lifeSeconds),
        !.startRadius = Coalesce(opts.startRadius, IcoParams.startRadius),
        !.endRadius = Coalesce(opts.endRadius, IcoParams.endRadius),
        !.moveSpeed = Coalesce(opts.moveSpeed, IcoParams.moveSpeed),
        !.count = Coalesce(opts.count, IcoParams.count),
        !.spawnDistance = Coalesce(opts.spawnDistance, IcoParams.spawnDistance),
        !.fadeStart = Coalesce(opts.fadeStart, IcoParams.fadeStart),
        !.fadeEnd = Coalesce(opts.fadeEnd, IcoParams.fadeEnd),
        !.growthExponent = Coalesce(opts.growthExponent, IcoParams.growthExponent),
        !.growthDelay = Coalesce(opts.growthDelay, IcoParams.growthDelay),
        !.tag = opts.tag]

\* spawn(opts) that hands opts to restart as they were given
IcoSpawnRaw(m, opts, now) ==
    LET a  == IcoAcquire(m)
        m1 == a[1]
        r  == a[2]
        o  == IcoRingRestart(m1.obj[r], opts, now)
    IN [m1 EXCEPT !.obj[r] = o, !.rings = Append(m1.rings, r),
                  !.log = Append(m1.log, opts.tag)]

\* spawn(opts)
IcoSpawn(m, opts, now) ==
    LET a  == IcoAcquire(m)
        m1 == a[1]
        r  == a[2]
        o  == IcoRingRestart(m1.obj[r], IcoSpawnTable(opts), now)
    IN [m1 EXCEPT !.obj[r] = o, !.rings = Append(m1.rings, r),
                  !.log = Append(m1.log, opts.tag)]

\* a spawnAfter that takes its instance from the pool when it enqueues
IcoSpawnAfterAcquires(m, delay, opts, now) ==
    LET m1 == IcoAcquire(m)[1]
    IN [m1 EXCEPT !.pending = Append(m1.pending,
                     [delay |-> delay, opts |-> opts, d0 |-> delay, enq |-> now])]

\* spawnAfter(delay, opts); the request remembers when it was enqueued
IcoSpawnAfter(m, delay, opts, now) ==
    [m EXCEPT !.pending = Append(m.pending,
                 [delay |-> delay, opts |-> opts, d0 |-> delay, enq |-> now])]

\* the pending scan written as a forward scan, for (j = 0; j < length; j++)
RECURSIVE IcoPendingForward(_, _, _, _)
IcoPendingForward(m, j, dt, now) ==
    IF j > Len(m.pending) THEN m
    ELSE LET delay == m.pending[j].delay - dt
             m1    == [m EXCEPT !.pending[j].delay = delay]
         IN IF delay <= 0
            THEN LET m2 == IcoSpawn(m1, m1.pending[j].opts, now)
                 IN IcoPendingForward([m2 EXCEPT !.pending = Splice(m2.pending, j)],
                                      j + 1, dt, now)
            ELSE IcoPendingForward(m1, j + 1, dt, now)

IcoPendingLoopForward(m, i, dt, now) == IcoPendingForward(m, 1, dt, now)

\* the pending scan of update(dt): for (i = length - 1; i >= 0; i--)
RECURSIVE IcoPendingLoop(_, _, _, _)
IcoPendingLoop(m, i, dt, now) ==
    IF i < 1 THEN m
    ELSE LET delay == m.pending[i].delay - dt
             m1    == [m EXCEPT !.pending[i].delay = delay]
         IN IF delay <= 0
            THEN LET m2 == IcoSpawn(m1, m1.pending[i].opts, now)
                 IN IcoPendingLoop([m2 EXCEPT !.pending = Splice(m2.pending, i)],
                                   i - 1, dt, now)
            ELSE IcoPendingLoop(m1, i - 1, dt, now)

\* the aging scan written as a forward scan, for (j = 0; j < length; j++),
\* which steps over the instance that follows a removed one
RECURSIVE IcoRingsForward(_, _, _)
IcoRingsForward(m, j, dt) ==
    IF j > Len(m.rings) THEN m
    ELSE LET r  == m.rings[j]
             m1 == [m EXCEPT !.obj[r] = IcoRingUpdate(m.obj[r], dt)]
         IN IF ~m1.obj[r].alive
            THEN IcoRingsForward(IcoRelease([m1 EXCEPT !.rings = Splice(m1.rings, j)], r),
                                 j + 1, dt)
            ELSE IcoRingsForward(m1, j + 1, dt)

IcoRingsLoopForward(m, i, dt) == IcoRingsForward(m, 1, dt)

\* the aging scan with the alive test taken before the instance is updated
RECURSIVE IcoRingsLoopLate(_, _, _)
IcoRingsLoopLate(m, i, dt) ==
    IF i < 1 THEN m
    ELSE LET r  == m.rings[i]
             m1 == [m EXCEPT !.obj[r] = IcoRingUpdate(m.obj[r], dt)]
         IN IF ~m.obj[r].alive
            THEN IcoRingsLoopLate(IcoRelease([m1 EXCEPT !.rings = Splice(m1.rings, i)], r),
                                  i - 1, dt)
            ELSE IcoRingsLoopLate(m1, i - 1, dt)

\* the aging scan of update(dt): for (i = length - 1; i >= 0; i--)
RECURSIVE IcoRingsLoop(_, _, _)
IcoRingsLoop(m, i, dt) ==
    IF i < 1 THEN m
    ELSE LET r  == m.rings[i]
             m1 == [m EXCEPT !.obj[r] = IcoRingUpdate(m.obj[r], dt)]
         IN IF ~m1.obj[r].alive
            THEN IcoRingsLoop(IcoRelease([m1 EXCEPT !.rings = Splice(m1.rings, i)], r),
                              i - 1, dt)
            ELSE IcoRingsLoop(m1, i - 1, dt)

\* update(dt) with the instances aged before the pending requests are served
IcoManagerUpdateAgeFirst(m, dt, now) ==
    LET m1 == IcoRingsLoop(m, Len(m.rings), dt)
    IN IF Len(m1.pending) > 0
       THEN IcoPendingLoop(m1, Len(m1.pending), dt, now)
       ELSE m1

\* update(dt)
IcoManagerUpdate(m, dt, now) ==
    LET m1 == IF Len(m.pending) > 0
              THEN IcoPendingLoop(m, Len(m.pending), dt, now)
              ELSE m
    IN IcoRingsLoop(m1, Len(m1.rings), dt)

\* the three option tables of spawnAssembly(), stage 1 immediate; each
\* carries the camera's direction, position and orientation at the call
IcoAssemblyOpts(k, stage, rid) ==
    LET p          == IcoParams
        smallStart == p.startRadius \div 3
        secondEnd  == (p.endRadius * 55) \div 100
        thirdEnd   == p.endRadius \div 3
        main == [IcoFallbackOpts EXCEPT
                    !.direction = Normalize(WorldDirection(camera.quaternion)),
                    !.initialPosition = camera.position,
                    !.initialQuaternion = camera.quaternion,
                    !.tag = [rid |-> rid, asm |-> k, stage |-> stage]]
    IN CASE stage = 1 -> main
         [] stage = 2 ->
              [main EXCEPT !.startRadius = smallStart, !.endRadius = secondEnd,
                           !.count = 10 * Max(20, Floor((p.count * 75) \div 100)),
                           !.spawnDistance = p.spawnDistance + 2000,
                           !.fadeStart = Min(750, p.fadeStart + 50),
                           !.fadeEnd = Min(950, p.fadeEnd + 50),
                           !.growthExponent = 120, !.growthDelay = 20]
         [] OTHER ->
              [main EXCEPT !.startRadius = smallStart, !.endRadius = thirdEnd,
                           !.count = 10 * Max(16, Floor((p.count * 60) \div 100)),
                           !.spawnDistance = p.spawnDistance + 6500,
                           !.fadeStart = Min(850, p.fadeStart + 150),
                           !.growthExponent = 200, !.growthDelay = 50]

\* spawnAssembly(); k numbers the call, rid the first of its two requests
IcoManagerSpawnAssembly(m, k, rid, now) ==
    LET m1 == IcoSpawn(m, IcoAssemblyOpts(k, 1, 0), now)
        m2 == IcoSpawnAfter(m1, AssemblyDelay, IcoAssemblyOpts(k, 2, rid), now)
    IN IcoSpawnAfter(m2, AssemblyDelay, IcoAssemblyOpts(k, 3, rid + 1), now)

\* the option table the constructor prewarms the pool with
IcoPrewarmOpts ==
    [IcoFallbackOpts EXCEPT !.lifeSeconds = PrewarmLife, !.moveSpeed = 0]

\* a constructor that prewarms the pool and starts no prewarm render instance
IcoManagerNewNoWarm ==
    LET prewarmed == [IcoRingNew(IcoPrewarmOpts)
                        EXCEPT !.visible = FALSE, !.alive = FALSE]
    IN [rings |-> <<>>, pending |-> <<>>, log |-> <<>>,
        pool |-> [i \in 1..poolSize |-> i],
        obj  |-> [i \in 1..poolSize |-> prewarmed]]

\* new IcoRingsManager(scene, camera)
IcoManagerNew ==
    LET prewarmed == [IcoRingNew(IcoPrewarmOpts)
                        EXCEPT !.visible = FALSE, !.alive = FALSE]
        m0 == [rings |-> <<>>, pending |-> <<>>, log |-> <<>>,
               pool |-> [i \in 1..poolSize |-> i],
               obj  |-> [i \in 1..poolSize |-> prewarmed]]
        a  == IcoAcquire(m0)
        m1 == a[1]
        warm == a[2]
    IN [m1 EXCEPT !.obj[warm] = IcoRingRestart(m1.obj[warm],
                                   [IcoNoOpts EXCEPT !.lifeSeconds = WarmLife,
                                                     !.count = 10,
                                                     !.moveSpeed = 0], 0),
                  !.rings = Append(m1.rings, warm)]

-----------------------------------------------------------------------------
(* Volumetric variant: ShockRing *)

\* lifetime floor, Math.max(0.2, ...)
ShockLifeFloor == 20

\* ShockRingManager.params.lifeSeconds (7.2 s)
ShockParamsLife == 720

\* ShockRingManager.params.fadeStart (0.6)
ShockParamsFadeStart == 600

\* ShockRingManager.params.fadeEnd (0.9)
ShockParamsFadeEnd == 900

\* the minimum gap forced between fadeStart and fadeEnd in update (0.001)
FadeGap == 1

\* ShockRingManager.params: the radii (4.2 m, 12 m) and the growth curve
\* (exponent 2.5, delay 0.02)
ShockParams ==
    [startRadius |-> 1260, endRadius |-> 3600,
     growthExponent |-> 250, growthDelay |-> 20]

\* ShockRingOptions with no field given
ShockNoOpts ==
    [lifeSeconds |-> Unset, moveSpeed |-> Unset, spawnDistance |-> Unset,
     startRadius |-> Unset, endRadius |-> Unset,
     fadeStart |-> Unset, fadeEnd |-> Unset,
     growthExponent |-> Unset, growthDelay |-> Unset,
     growthMode |-> Unset, collapseAt |-> Unset, collapseScale |-> Unset,
     recoverAt |-> Unset, tag |-> NoTag]

\* globalThis['__SHOCK_RING_NOISE_3D__'] before any volume was built; a
\* cache g is [cached, built]: cached is the texture stored under the key
\* (0 for undefined, else the serial number of the build that made it),
\* built counts the volumes built so far
NoNoise == [cached |-> 0, built |-> 0]

\* getSharedNoise3D that builds a fresh volume on every call
GetSharedNoise3DUncached(g) ==
    [cached |-> g.built + 1, built |-> g.built + 1]

\* getSharedNoise3D(): the cache after the call; the texture returned is
\* its cached field
GetSharedNoise3D(g) ==
    IF g.cached # 0 THEN g
    ELSE [cached |-> g.built + 1, built |-> g.built + 1]

\* new ShockRing(camera, opts).addTo(scene); the pose is the camera's at
\* this moment; fade is the uniform's value as the fraction
\* <<numerator, denominator>>; noise is the texture getSharedNoise3D
\* returned to the constructor
ShockRingNew(opts, now, noise) ==
    LET spawnDir  == Normalize(WorldDirection(camera.quaternion))
        spawnDist == Max(0, Coalesce(opts.spawnDistance, 1500))
        startRadiusWorld == Max(15, Coalesce(opts.startRadius, 240))
    IN [alive |-> TRUE, inScene |-> TRUE, age |-> 0,
        lifeSeconds |-> Max(ShockLifeFloor, Coalesce(opts.lifeSeconds, 200)),
        moveSpeed |-> Coalesce(opts.moveSpeed, 60),
        startRadiusWorld |-> startRadiusWorld,
        endRadiusWorld |-> Max(startRadiusWorld, Coalesce(opts.endRadius, 600)),
        growthExponent |-> Max(10, Coalesce(opts.growthExponent, 600)),
        growthDelay |-> Clamp(Coalesce(opts.growthDelay, 100), 0, 950),
        growthMode |-> Coalesce(opts.growthMode, 0),
        collapseAt |-> Clamp(Coalesce(opts.collapseAt, 80), 0, 950),
        collapseScale |-> Clamp(Coalesce(opts.collapseScale, 50), 0, 1000),
        recoverAt |-> Clamp(Max(Coalesce(opts.recoverAt, 200),
                                Coalesce(opts.collapseAt, 80) + 10), 0, 990),
        position |-> VecAdd(camera.position, VecScale(spawnDir, spawnDist)),
        quaternion |-> camera.quaternion,
        moveDir |-> spawnDir,
        fadeStart |-> Clamp(Coalesce(opts.fadeStart, 500), 0, 1000),
        fadeEnd |-> Clamp(Coalesce(opts.fadeEnd, 800), 0, 1000),
        fade |-> <<1, 1>>, noise |-> noise,
        born |-> now, reqLife |-> opts.lifeSeconds, tag |-> opts.tag]

\* the fade computation of update with the forced gap left out
FadeCurveNoGap(fadeStart, fadeEnd, tn, td, one) ==
    LET denom == Max(1, fadeEnd - fadeStart)
    IN IF one * tn <= fadeStart * td THEN <<1, 1>>
       ELSE IF one * tn >= fadeEnd * td THEN <<0, 1>>
       ELSE <<denom * td - (one * tn - fadeStart * td), denom * td>>

\* the fade computation of update (ShockRing.ts 235-239) at life fraction
\* t = tn / td, for this.fadeStart and this.fadeEnd given in units of
\* 1 / one; the value is the fraction <<numerator, denominator>>
FadeCurve(fadeStart, fadeEnd, tn, td, one) ==
    LET fe    == Max(fadeStart + (FadeGap * one) \div 1000, fadeEnd)
        denom == fe - fadeStart
    IN IF one * tn <= fadeStart * td THEN <<1, 1>>
       ELSE IF one * tn >= fe * td THEN <<0, 1>>
       ELSE <<denom * td - (one * tn - fadeStart * td), denom * td>>

\* the fade value of update at age a of lifetime life: t = min(1, a / life)
ShockFade(o, a) ==
    FadeCurve(o.fadeStart, o.fadeEnd, Min(a, o.lifeSeconds), o.lifeSeconds, 1000)

\* currentWorldR of the default mode with the two radii of the lerp
\* exchanged: from endRadiusWorld down to startRadiusWorld
ShockWorldRShrinking(o, a) ==
    LET t        == Frac(Min(a, o.lifeSeconds), o.lifeSeconds)
        gd       == Frac(o.growthDelay, 1000)
        tDelayed == FracDiv(FracMax(<<0, 1>>, FracSub(t, gd)),
                            FracMax(<<1, 100000>>, FracSub(<<1, 1>>, gd)))
        growthT  == Pow(FracMax(<<0, 1>>, FracMin(<<1, 1>>, tDelayed)),
                        o.growthExponent)
    IN Lerp(<<o.endRadiusWorld, 1>>, <<o.startRadiusWorld, 1>>, growthT)

\* currentWorldR of update at age a: the major radius in world units
ShockWorldR(o, a) ==
    LET t      == Frac(Min(a, o.lifeSeconds), o.lifeSeconds)
        start  == <<o.startRadiusWorld, 1>>
        end    == <<o.endRadiusWorld, 1>>
        tiny   == <<1, 100000>>
        gd     == Frac(o.growthDelay, 1000)
        grown  == LET tDelayed == FracDiv(FracMax(<<0, 1>>, FracSub(t, gd)),
                                          FracMax(tiny, FracSub(<<1, 1>>, gd)))
                      growthT  == Pow(FracMax(<<0, 1>>, FracMin(<<1, 1>>, tDelayed)),
                                      o.growthExponent)
                  IN Lerp(start, end, growthT)
    IN IF o.growthMode = 1
       THEN LET tc  == FracMin(Frac(o.collapseAt, 1000), <<95, 100>>)
                tr  == FracMax(Frac(o.recoverAt, 1000), FracAdd(tc, <<1, 100>>))
                low == FracMul(start, Frac(o.collapseScale, 1000))
            IN IF FracLess(t, tc)
               THEN Lerp(start, low,
                         EaseOutCubic(FracDiv(t, FracMax(tiny, tc))))
               ELSE IF FracLess(t, tr)
               THEN Lerp(low, start,
                         EaseOutCubic(FracDiv(FracSub(t, tc),
                                              FracMax(tiny, FracSub(tr, tc)))))
               ELSE grown
       ELSE grown

\* uniforms.Rmajor.value: the constructor sets it from the start radius,
\* every update of a live instance from currentWorldR; mesh.scale.x is
\* endRadiusWorld / 0.47
ShockRmajor(o) ==
    LET scale == FracDiv(<<o.endRadiusWorld, 1>>, <<47, 100>>)
    IN IF o.age = 0
       THEN FracMin(<<45, 100>>, FracDiv(<<o.startRadiusWorld, 1>>, scale))
       ELSE FracMin(<<47, 100>>, FracDiv(ShockWorldR(o, o.age), scale))

\* fade.value <= 0.01
FadeGone(f) == 100 * f[1] <= f[2]

\* a move applied to the camera's present position, as if the instance held
\* a reference to the camera's position and no copy of it
ShockRingMoveFromCamera(o, dt) ==
    VecAdd(camera.position, VecScale(o.moveDir, o.moveSpeed * dt))

\* the move of update(dt)
ShockRingMove(o, dt) ==
    VecAdd(o.position, VecScale(o.moveDir, o.moveSpeed * dt))

\* ShockRing.update(dt) that ends the life on age alone
ShockRingUpdateNoFade(o, dt) ==
    IF ~o.alive THEN o
    ELSE LET age  == o.age + dt
             fade == ShockFade(o, age)
         IN [o EXCEPT !.age = age, !.fade = fade,
                      !.position = ShockRingMove(o, dt),
                      !.alive = ~(age >= o.lifeSeconds)]

\* ShockRing.update(dt)
ShockRingUpdate(o, dt) ==
    IF ~o.alive THEN o
    ELSE LET age  == o.age + dt
             fade == ShockFade(o, age)
         IN [o EXCEPT !.age = age, !.fade = fade,
                      !.position = ShockRingMove(o, dt),
                      !.alive = ~(age >= o.lifeSeconds \/ FadeGone(fade))]

\* ShockRing.dispose(scene)
ShockRingDispose(o) == [o EXCEPT !.inScene = FALSE]

-----------------------------------------------------------------------------
(* Volumetric variant: ShockRingManager.  A manager value m is the record  *)
(* [rings, pending, obj, log, noise3D]; noise3D is the cache of            *)
(* getSharedNoise3D, which lives on globalThis and which only ShockRing    *)
(* constructors touch.                                                     *)

\* spawn(opts): the option table handed to the constructor names no
\* growthMode, collapseAt, collapseScale or recoverAt
ShockSpawn(m, opts, now) ==
    LET g    == GetSharedNoise3D(m.noise3D)
        ring == ShockRingNew(
                   [ShockNoOpts EXCEPT
                      !.lifeSeconds = Coalesce(opts.lifeSeconds, ShockParamsLife),
                      !.moveSpeed = Coalesce(opts.moveSpeed, 0),
                      !.startRadius = Coalesce(opts.startRadius, ShockParams.startRadius),
                      !.endRadius = Coalesce(opts.endRadius, ShockParams.endRadius),
                      !.spawnDistance = Coalesce(opts.spawnDistance, 1500),
                      !.fadeStart = Coalesce(opts.fadeStart, ShockParamsFadeStart),
                      !.fadeEnd = Coalesce(opts.fadeEnd, ShockParamsFadeEnd),
                      !.growthExponent = Coalesce(opts.growthExponent,
                                                  ShockParams.growthExponent),
                      !.growthDelay = Coalesce(opts.growthDelay, ShockParams.growthDelay),
                      !.tag = opts.tag], now, g.cached)
    IN [m EXCEPT !.noise3D = g,
                 !.obj = Append(m.obj, ring),
                 !.rings = Append(m.rings, Len(m.obj) + 1),
                 !.log = Append(m.log, opts.tag)]

\* spawnAfter(delay, opts); the request remembers when it was enqueued
ShockSpawnAfter(m, delay, opts, now) ==
    [m EXCEPT !.pending = Append(m.pending,
                 [delay |-> delay, opts |-> opts, d0 |-> delay, enq |-> now])]

\* the pending scan with the firing test written delay < 0
RECURSIVE ShockPendingLoopStrict(_, _, _, _)
ShockPendingLoopStrict(m, i, dt, now) ==
    IF i < 1 THEN m
    ELSE LET delay == m.pending[i].delay - dt
             m1    == [m EXCEPT !.pending[i].delay = delay]
         IN IF delay < 0
            THEN LET m2 == ShockSpawn(m1, m1.pending[i].opts, now)
                 IN ShockPendingLoopStrict([m2 EXCEPT !.pending = Splice(m2.pending, i)],
                                           i - 1, dt, now)
            ELSE ShockPendingLoopStrict(m1, i - 1, dt, now)

\* the pending scan of update(dt): for (i = length - 1; i >= 0; i--)
RECURSIVE ShockPendingLoop(_, _, _, _)
ShockPendingLoop(m, i, dt, now) ==
    IF i < 1 THEN m
    ELSE LET delay == m.pending[i].delay - dt
             m1    == [m EXCEPT !.pending[i].delay = delay]
         IN IF delay <= 0
            THEN LET m2 == ShockSpawn(m1, m1.pending[i].opts, now)
                 IN ShockPendingLoop([m2 EXCEPT !.pending = Splice(m2.pending, i)],
                                     i - 1, dt, now)
            ELSE ShockPendingLoop(m1, i - 1, dt, now)

\* the aging scan of update(dt): for (i = length - 1; i >= 0; i--)
RECURSIVE ShockRingsLoop(_, _, _)
ShockRingsLoop(m, i, dt) ==
    IF i < 1 THEN m
    ELSE LET r  == m.rings[i]
             m1 == [m EXCEPT !.obj[r] = ShockRingUpdate(m.obj[r], dt)]
         IN IF ~m1.obj[r].alive
            THEN ShockRingsLoop([m1 EXCEPT !.obj[r] = ShockRingDispose(m1.obj[r]),
                                           !.rings = Splice(m1.rings, i)],
                                i - 1, dt)
            ELSE ShockRingsLoop(m1, i - 1, dt)

\* update(dt)
ShockManagerUpdate(m, dt, now) ==
    LET m1 == IF Len(m.pending) > 0
              THEN ShockPendingLoop(m, Len(m.pending), dt, now)
              ELSE m
    IN ShockRingsLoop(m1, Len(m1.rings), dt)

\* the three option tables of spawnAssembly(): 1 main, 2 second, 3 third
ShockAssemblyOpts(k, stage, rid) ==
    [ShockNoOpts EXCEPT
       !.lifeSeconds = ShockParamsLife,
       !.moveSpeed = -7,
       !.spawnDistance = CASE stage = 1 -> 1500
                           [] stage = 2 -> 1500 + 2000
                           [] OTHER     -> 1500 + 6500,
       !.startRadius = IF stage = 1 THEN ShockParams.startRadius
                       ELSE ShockParams.startRadius \div 3,
       !.endRadius = CASE stage = 1 -> ShockParams.endRadius
                       [] stage = 2 -> (ShockParams.endRadius * 5) \div 10
                       [] OTHER     -> ShockParams.endRadius \div 3,
       !.growthExponent = CASE stage = 1 -> ShockParams.growthExponent
                            [] stage = 2 -> 120
                            [] OTHER     -> 200,
       !.growthDelay = CASE stage = 1 -> ShockParams.growthDelay
                         [] stage = 2 -> 20
                         [] OTHER     -> 50,
       !.fadeStart = CASE stage = 1 -> ShockParamsFadeStart
                       [] stage = 2 -> Min(750, ShockParamsFadeStart + 50)
                       [] OTHER     -> Min(850, ShockParamsFadeStart + 150),
       !.fadeEnd = IF stage = 2 THEN Min(950, ShockParamsFadeEnd + 50)
                   ELSE ShockParamsFadeEnd,
       !.growthMode = IF stage = 3 THEN 1 ELSE Unset,
       !.collapseAt = IF stage = 3 THEN 60 ELSE Unset,
       !.collapseScale = IF stage = 3 THEN 50 ELSE Unset,
       !.recoverAt = IF stage = 3 THEN 200 ELSE Unset,
       !.tag = [rid |-> rid, asm |-> k, stage |-> stage]]

\* spawnAssembly() that spawns its third stage at once instead of enqueuing it
ShockManagerSpawnAssemblyEager(m, k, rid, now) ==
    LET m1 == ShockSpawn(m, ShockAssemblyOpts(k, 1, 0), now)
        m2 == ShockSpawnAfter(m1, AssemblyDelay, ShockAssemblyOpts(k, 2, rid), now)
    IN ShockSpawn(m2, ShockAssemblyOpts(k, 3, 0), now)

\* spawnAssembly(); k numbers the call, rid the first of its two requests
ShockManagerSpawnAssembly(m, k, rid, now) ==
    LET m1 == ShockSpawn(m, ShockAssemblyOpts(k, 1, 0), now)
        m2 == ShockSpawnAfter(m1, AssemblyDelay, ShockAssemblyOpts(k, 2, rid), now)
    IN ShockSpawnAfter(m2, AssemblyDelay, ShockAssemblyOpts(k, 3, rid + 1), now)

\* new ShockRingManager(scene, camera)
ShockManagerNew ==
    [rings |-> <<>>, pending |-> <<>>, obj |-> <<>>, log |-> <<>>,
     noise3D |-> NoNoise]

-----------------------------------------------------------------------------
(* History of a manager: clock is the sum of the dt of its update calls;   *)
(* req[rid] holds, for pending request rid, the clock when it was          *)
(* enqueued, the delay it was enqueued with, the number of spawns it has   *)
(* caused and the clock when the update that fired it returned; asm[k]     *)
(* holds, for the k-th spawnAssembly call, the clock at the call, the      *)
(* number of spawns it has caused, the number of its first request and     *)
(* the camera's position and orientation at the call;                      *)
(* peak is the largest length the active list has had at any moment, also  *)
(* inside a call; maxRings is the limit last given to setMaxRings.         *)

HistNew == [clock |-> 0, nCalls |-> 0, req |-> <<>>, asm |-> <<>>,
            peak |-> 0, maxRings |-> Unset]

\* enter the spawns log[i..] of a call that returns at clock `at'
RECURSIVE HistRecord(_, _, _, _)
HistRecord(h, log, i, at) ==
    IF i > Len(log) THEN h
    ELSE LET t  == log[i]
             h1 == IF t.rid > 0
                   THEN [h EXCEPT !.req[t.rid].fired = @ + 1,
                                  !.req[t.rid].firedAt = at]
                   ELSE h
             h2 == IF t.asm > 0
                   THEN [h1 EXCEPT !.asm[t.asm].spawns = @ + 1]
                   ELSE h1
         IN HistRecord(h2, log, i + 1, at)

\* a call starts with an empty spawn log
Begin(m) == [m EXCEPT !.log = <<>>]

\* the history entries of the requests a call has appended to `pending'
HistRequests(old, new) ==
    [i \in 1..(Len(new) - Len(old)) |->
        [enq |-> new[Len(old) + i].enq, d0 |-> new[Len(old) + i].d0,
         fired |-> 0, firedAt |-> 0]]

\* the active list is longest when the call's last spawn has pushed: every
\* call spawns before it removes (m0 before the call, m after it)
HistPeak(h, m0, m) ==
    [h EXCEPT !.peak = Max(@, Len(m0.rings) + Len(m.log))]

\* m0 is the manager before the call and m the manager after it
HistSpawn(h, m0, m) ==
    HistRecord(HistPeak([h EXCEPT !.nCalls = @ + 1], m0, m), m.log, 1, h.clock)

HistSpawnAssembly(h, m0, m) ==
    HistRecord(HistPeak([h EXCEPT !.nCalls = @ + 1,
                                  !.req = @ \o HistRequests(m0.pending, m.pending),
                                  !.asm = Append(@, [at |-> h.clock, spawns |-> 0,
                                                     rid |-> Len(h.req) + 1,
                                                     position |-> camera.position,
                                                     quaternion |-> camera.quaternion])],
                        m0, m),
               m.log, 1, h.clock)

HistUpdate(h, log, dt) ==
    HistRecord([h EXCEPT !.clock = @ + dt], log, 1, h.clock + dt)

-----------------------------------------------------------------------------
(* Inputs *)

\* options given to IcoRingsManager.spawn: nothing given; the lifetime
\* floor with every other parameter outside its range (negative radius,
\* endRadius below startRadius, 134.5 sub-instances, fade and growth
\* fractions outside [0, 1])
IcoSpawnOpts ==
    {IcoNoOpts,
     [IcoNoOpts EXCEPT !.lifeSeconds = 20, !.moveSpeed = -5,
                       !.startRadius = -300, !.endRadius = 0,
                       !.spawnDistance = -1000, !.count = 1345,
                       !.fadeStart = 2000, !.fadeEnd = -5,
                       !.growthExponent = 0, !.growthDelay = 2000]}

\* options given to ShockRingManager.spawn: nothing given; the floor as
\* lifetime, moving at 6 m/s; the floor as lifetime with a fade window that
\* is empty at the end of life and with radii and growth parameters outside
\* their ranges
ShockSpawnOpts ==
    {ShockNoOpts,
     [ShockNoOpts EXCEPT !.lifeSeconds = 20, !.moveSpeed = 60],
     [ShockNoOpts EXCEPT !.lifeSeconds = 20, !.fadeStart = 1000, !.fadeEnd = 1000,
                         !.startRadius = -300, !.endRadius = -600,
                         !.growthExponent = 0, !.growthDelay = 2000]}

\* options given to new ShockRing(camera, opts) by a caller that holds the
\* instance itself, <<lifeSeconds, startRadius, endRadius, growthExponent,
\* growthDelay, growthMode, collapseAt, collapseScale, recoverAt,
\* fadeStart>>, fadeEnd as fadeStart: default growth with and without
\* delay, not fading before the end of life; every parameter outside its
\* range;
\* collapseThenGrow as the third assembly stage asks for it on a start
\* radius of 1 m, with the growth delayed to recoverAt and not delayed; collapse to nothing; recoverAt below collapseAt; both
\* below 0; both above 1
ShockRingOpts ==
    {[ShockNoOpts EXCEPT !.lifeSeconds = x[1], !.startRadius = x[2],
                         !.endRadius = x[3], !.growthExponent = x[4],
                         !.growthDelay = x[5], !.growthMode = x[6],
                         !.collapseAt = x[7], !.collapseScale = x[8],
                         !.recoverAt = x[9],
                         !.fadeStart = x[10], !.fadeEnd = x[10]] :
        x \in {<<20, 240, 600, 200, 100, Unset, Unset, Unset, Unset, 1000>>,
                <<50, 300, 900, 100, 0, 0, Unset, Unset, Unset, 1000>>,
                <<0, -300, -600, 0, 2000, Unset, Unset, Unset, Unset, Unset>>,
                <<-100, 600, 240, 100, -50, 0, Unset, Unset, Unset, 1000>>,
                <<50, 300, 900, 200, 200, 1, 60, 50, 200, Unset>>,
                <<50, 300, 900, 100, 0, 1, 60, 50, 200, Unset>>,
                <<20, 300, 600, 100, 0, 1, 500, 0, 600, Unset>>,
                <<20, 300, 600, 100, 0, 1, 500, 1000, 300, Unset>>,
                <<20, 300, 600, 100, 0, 1, -500, 500, -5000, Unset>>,
                <<20, 300, 600, 100, 0, 1, 2000, 500, 3000, Unset>>}}

\* the integer that stands for life fraction 1 where the fade curve is
\* followed on its own: fade windows and t in steps of 0.0005
FadeOne == 2000

\* fade windows <<fadeStart, fadeEnd>> with fadeStart < fadeEnd: narrower
\* than the forced gap in the middle, at 0 and at 1; as wide as the gap;
\* the window of ShockRingManager.params; the whole life
FadeWindows ==
    {<<1000, 1001>>, <<0, 1>>, <<1999, 2000>>, <<1000, 1002>>,
     <<1200, 1800>>, <<0, 2000>>}

\* growth of the life fraction between two updates
FadeSteps == {1, 500}

\* no curve is followed
NoSample == [fadeStart |-> 0, fadeEnd |-> 0, t |-> 0,
             fade |-> <<1, 1>>, prev |-> <<1, 1>>]

\* the dt a caller gives to ShockRing.update
RingDts == {1, 2}

\* the limit given to setMaxRings (the GUI offers 1..500)
MaxRingsOpts == {1}

\* the poses the camera takes: at the origin looking down -z, and 1 m to
\* the side and 2 m back, turned a quarter turn
CameraPoses ==
    {[position |-> <<0, 0, 0>>, quaternion |-> 0],
     [position |-> <<1000, 0, 2000>>, quaternion |-> 1]}

Variants == {"ico", "shock"}

\* the calls other than update and the camera moves made so far
nEvents == icoHist.nCalls + shockHist.nCalls + camera.moves

-----------------------------------------------------------------------------
(* The camera, moved by the controller between the calls on the managers *)

CameraMove ==
    /\ nEvents < MaxCalls
    /\ \E p \in CameraPoses :
          /\ p.position # camera.position
          /\ camera' = [position |-> p.position, quaternion |-> p.quaternion,
                        moves |-> camera.moves + 1]
    /\ UNCHANGED <<variant, ico, shock, icoHist, shockHist, sample>>

-----------------------------------------------------------------------------
(* The operations of IcoRingsManager *)

IcoSpawnCall ==
    /\ variant = "ico"
    /\ nEvents < MaxCalls
    /\ \E opts \in IcoSpawnOpts :
          LET m == IcoSpawn(Begin(ico), opts, icoHist.clock)
          IN /\ ico' = Begin(m)
             /\ icoHist' = HistSpawn(icoHist, ico, m)
    /\ UNCHANGED <<variant, camera, shock, shockHist, sample>>

IcoSpawnAssemblyCall ==
    /\ variant = "ico"
    /\ nEvents < MaxCalls
    /\ LET m == IcoManagerSpawnAssembly(Begin(ico), Len(icoHist.asm) + 1,
                                        Len(icoHist.req) + 1, icoHist.clock)
       IN /\ ico' = Begin(m)
          /\ icoHist' = HistSpawnAssembly(icoHist, ico, m)
    /\ UNCHANGED <<variant, camera, shock, shockHist, sample>>

IcoUpdateCall ==
    /\ variant = "ico"
    /\ \E dt \in Dts :
          /\ icoHist.clock + dt <= MaxTime
          /\ LET m == IcoManagerUpdate(Begin(ico), dt, icoHist.clock)
             IN /\ ico' = Begin(m)
                /\ icoHist' = HistPeak(HistUpdate(icoHist, m.log, dt), ico, m)
    /\ UNCHANGED <<variant, camera, shock, shockHist, sample>>

-----------------------------------------------------------------------------
(* The operations of ShockRingManager *)

ShockSpawnCall ==
    /\ variant = "shock"
    /\ nEvents < MaxCalls
    /\ \E opts \in ShockSpawnOpts :
          LET m == ShockSpawn(Begin(shock), opts, shockHist.clock)
          IN /\ shock' = Begin(m)
             /\ shockHist' = HistSpawn(shockHist, shock, m)
    /\ UNCHANGED <<variant, camera, ico, icoHist, sample>>

ShockSpawnAssemblyCall ==
    /\ variant = "shock"
    /\ nEvents < MaxCalls
    /\ LET m == ShockManagerSpawnAssembly(Begin(shock), Len(shockHist.asm) + 1,
                                          Len(shockHist.req) + 1, shockHist.clock)
       IN /\ shock' = Begin(m)
          /\ shockHist' = HistSpawnAssembly(shockHist, shock, m)
    /\ UNCHANGED <<variant, camera, ico, icoHist, sample>>

ShockUpdateCall ==
    /\ variant = "shock"
    /\ \E dt \in Dts :
          /\ shockHist.clock + dt <= MaxTime
          /\ LET m == ShockManagerUpdate(Begin(shock), dt, shockHist.clock)
             IN /\ shock' = Begin(m)
                /\ shockHist' = HistPeak(HistUpdate(shockHist, m.log, dt), shock, m)
    /\ UNCHANGED <<variant, camera, ico, icoHist, sample>>

\* main.ts: shockRings.setMaxRings(v).  ShockRingManager defines no
\* setMaxRings: the call raises a TypeError in the GUI callback and leaves
\* the manager as it was; the history keeps the limit that was asked for
ShockSetMaxRingsCall ==
    /\ variant = "shock"
    /\ nEvents < MaxCalls
    /\ \E n \in MaxRingsOpts :
          shockHist' = [shockHist EXCEPT !.nCalls = @ + 1, !.maxRings = n]
    /\ UNCHANGED <<variant, camera, ico, icoHist, shock, sample>>

\* main.ts: shockRings.clearAll().  ShockRingManager defines no clearAll:
\* the call raises a TypeError and leaves the manager as it was
ShockClearAllCall ==
    /\ variant = "shock"
    /\ nEvents < MaxCalls
    /\ shockHist' = [shockHist EXCEPT !.nCalls = @ + 1]
    /\ UNCHANGED <<variant, camera, ico, icoHist, shock, sample>>

-----------------------------------------------------------------------------

Init ==
    /\ variant \in Variants
    /\ camera = [position |-> <<0, 0, 0>>, quaternion |-> 0, moves |-> 0]
    /\ ico = IcoManagerNew
    /\ shock = ShockManagerNew
    /\ icoHist = [HistNew EXCEPT !.peak = Len(ico.rings)]
    /\ shockHist = HistNew
    /\ sample = NoSample

\* the calls on the managers, the camera at rest
Next ==
    \/ IcoSpawnCall
    \/ IcoSpawnAssemblyCall
    \/ IcoUpdateCall
    \/ ShockSpawnCall
    \/ ShockSpawnAssemblyCall
    \/ ShockUpdateCall

Spec == Init /\ [][Next]_vars

\* the assemblies of both managers under a camera that moves between calls
NextCamera ==
    \/ CameraMove
    \/ IcoSpawnAssemblyCall
    \/ IcoUpdateCall
    \/ ShockSpawnAssemblyCall
    \/ ShockUpdateCall

SpecCamera == Init /\ [][NextCamera]_vars

\* the application of main.ts: its frame updater calls update, its GUI
\* folder and mouse handler call spawnAssembly, clearAll and setMaxRings on
\* a ShockRingManager
InitGui == Init /\ variant = "shock"

NextGui ==
    \/ ShockSpawnAssemblyCall
    \/ ShockUpdateCall
    \/ ShockSetMaxRingsCall
    \/ ShockClearAllCall

SpecGui == InitGui /\ [][NextGui]_vars

\* the fade curve of ShockRing.update followed over the life fraction t on
\* its own, for fade windows given in units of 1 / FadeOne, finer than the
\* forced gap of 0.001; from 0 the life fraction grows to 1
InitFade ==
    /\ variant = "fade"
    /\ camera = [position |-> <<0, 0, 0>>, quaternion |-> 0, moves |-> 0]
    /\ ico = IcoManagerNew
    /\ icoHist = [HistNew EXCEPT !.peak = Len(ico.rings)]
    /\ shock = ShockManagerNew
    /\ shockHist = HistNew
    /\ \E w \in FadeWindows :
          sample = [fadeStart |-> w[1], fadeEnd |-> w[2], t |-> 0,
                    fade |-> FadeCurve(w[1], w[2], 0, FadeOne, FadeOne),
                    prev |-> <<1, 1>>]

\* the fade value at the life fraction of a later update
FadeStep ==
    /\ variant = "fade"
    /\ \E d \in FadeSteps :
          /\ sample.t + d <= FadeOne
          /\ sample' = [sample EXCEPT
                           !.t = @ + d,
                           !.fade = FadeCurve(sample.fadeStart, sample.fadeEnd,
                                              sample.t + d, FadeOne, FadeOne),
                           !.prev = sample.fade]
    /\ UNCHANGED <<variant, camera, ico, shock, icoHist, shockHist>>

NextFade == FadeStep

SpecFade == InitFade /\ [][NextFade]_vars

\* a caller constructs one ShockRing itself and updates it while it lives;
\* no manager holds the instance
InitRing ==
    /\ variant = "ring"
    /\ camera = [position |-> <<0, 0, 0>>, quaternion |-> 0, moves |-> 0]
    /\ ico = IcoManagerNew
    /\ icoHist = [HistNew EXCEPT !.peak = Len(ico.rings)]
    /\ \E opts \in ShockRingOpts :
          LET g == GetSharedNoise3D(NoNoise)
          IN shock = [ShockManagerNew EXCEPT
                         !.noise3D = g,
                         !.obj = <<ShockRingNew(opts, 0, g.cached)>>]
    /\ shockHist = HistNew
    /\ sample = NoSample

\* ring.update(dt)
RingUpdateCall ==
    /\ variant = "ring"
    /\ shock.obj[1].alive
    /\ \E dt \in RingDts :
          shock' = [shock EXCEPT !.obj[1] = ShockRingUpdate(@, dt)]
    /\ UNCHANGED <<variant, camera, ico, icoHist, shockHist, sample>>

NextRing == RingUpdateCall

SpecRing == InitRing /\ [][NextRing]_vars

\* the managers driven until their lists are empty: the frame updater
\* calls update in every frame, with dt > 0; the clock is not bounded, and
\* the update calls on a manager with nothing active and nothing pending,
\* which change nothing but the clock, are left out
LiveDts == {300, 400}

IcoUpdateLive ==
    /\ variant = "ico"
    /\ Len(ico.rings) > 0 \/ Len(ico.pending) > 0
    /\ \E dt \in LiveDts :
          LET m == IcoManagerUpdate(Begin(ico), dt, icoHist.clock)
          IN /\ ico' = Begin(m)
             /\ icoHist' = HistPeak(HistUpdate(icoHist, m.log, dt), ico, m)
    /\ UNCHANGED <<variant, camera, shock, shockHist, sample>>

ShockUpdateLive ==
    /\ variant = "shock"
    /\ Len(shock.rings) > 0 \/ Len(shock.pending) > 0
    /\ \E dt \in LiveDts :
          LET m == ShockManagerUpdate(Begin(shock), dt, shockHist.clock)
          IN /\ shock' = Begin(m)
             /\ shockHist' = HistPeak(HistUpdate(shockHist, m.log, dt), shock, m)
    /\ UNCHANGED <<variant, camera, ico, icoHist, sample>>

NextLive ==
    \/ IcoSpawnCall
    \/ IcoSpawnAssemblyCall
    \/ IcoUpdateLive
    \/ ShockSpawnCall
    \/ ShockSpawnAssemblyCall
    \/ ShockUpdateLive

\* ENABLED <<IcoUpdateLive>>_vars: LiveDts is not empty and every update
\* step moves the clock
IcoBusy == variant = "ico" /\ (Len(ico.rings) > 0 \/ Len(ico.pending) > 0)

\* ENABLED <<ShockUpdateLive>>_vars
ShockBusy == variant = "shock" /\ (Len(shock.rings) > 0 \/ Len(shock.pending) > 0)

\* app.start requests a frame after every frame, so update is called again
\* and again: weak fairness of the two update actions, WF_vars(IcoUpdateLive)
\* and WF_vars(ShockUpdateLive), with ENABLED written as the guards above
UpdateIsFair ==
    /\ []<>(~IcoBusy) \/ []<><<IcoUpdateLive>>_vars
    /\ []<>(~ShockBusy) \/ []<><<ShockUpdateLive>>_vars

SpecLive == Init /\ [][NextLive]_vars /\ UpdateIsFair

-----------------------------------------------------------------------------
(* The angle column of the per-instance data of an IcoRing, followed on    *)
(* its own.  A swarm o is [capacity, instanceCount, angleJitter,           *)
(* instanceData]: instanceData[k] is the angle of sub-instance i = k - 1   *)
(* as the fraction ti of a full turn (the code stores ang = ti * 2 * PI);  *)
(* angleJitter, in hundredths of a radian, is the resolved option of the   *)
(* last fill, which the code keeps in a local.  rnd[k] is the value        *)
(* Math.random() returned for sub-instance k - 1.                          *)

\* values of Math.random(): the smallest, and one just below 1
Rnds == {<<0, 1>>, <<999, 1000>>}

\* options of the constructor and of restart: count 0.5, 2 and 7; the
\* angleJitter default of 0.25 and a negative one
JitterOpts ==
    {[count |-> c, angleJitter |-> j] :
        c \in {5, 20, 70}, j \in {Unset, -50}}

\* const angleJitter = Math.max(0, opts.angleJitter ?? 0.25)
JitterAngle(opts) == Max(0, Coalesce(opts.angleJitter, 25))

\* const count of the constructor
JitterNewCount(opts) == Max(1, Floor(Coalesce(opts.count, 800)))

\* const count of restart
JitterRestartCount(o, opts) ==
    Min(o.capacity, Max(1, Floor(Coalesce(opts.count, 10 * o.instanceCount))))

\* the fill loop: ti = (i + Math.random() * angleJitter) / count for
\* i < count; the entries from count on keep what they held
JitterFill(data, count, angleJitter, rnd) ==
    [k \in DOMAIN data |->
        IF k <= count
        THEN FracDiv(FracAdd(<<k - 1, 1>>,
                             FracMul(rnd[k], Frac(angleJitter, 100))),
                     <<count, 1>>)
        ELSE data[k]]

\* the constructor: a buffer of count sub-instances, all filled
JitterNew(opts, rnd) ==
    LET count == JitterNewCount(opts)
    IN [capacity |-> count, instanceCount |-> count,
        angleJitter |-> JitterAngle(opts),
        instanceData |-> JitterFill([k \in 1..count |-> <<0, 1>>], count,
                                    JitterAngle(opts), rnd)]

\* restart(camera, opts): the first count sub-instances refilled
JitterRestart(o, opts, rnd) ==
    LET count == JitterRestartCount(o, opts)
    IN [o EXCEPT !.instanceCount = count,
                 !.angleJitter = JitterAngle(opts),
                 !.instanceData = JitterFill(o.instanceData, count,
                                             JitterAngle(opts), rnd)]

InitJitter ==
    /\ variant = "jitter"
    /\ camera = [position |-> <<0, 0, 0>>, quaternion |-> 0, moves |-> 0]
    /\ ico = IcoManagerNew
    /\ icoHist = [HistNew EXCEPT !.peak = Len(ico.rings)]
    /\ shock = ShockManagerNew
    /\ shockHist = HistNew
    /\ \E opts \in JitterOpts :
          \E rnd \in [1..JitterNewCount(opts) -> Rnds] :
             sample = JitterNew(opts, rnd)

\* ring.restart(camera, opts)
JitterRestartCall ==
    /\ variant = "jitter"
    /\ \E opts \in JitterOpts :
          \E rnd \in [1..JitterRestartCount(sample, opts) -> Rnds] :
             sample' = JitterRestart(sample, opts, rnd)
    /\ UNCHANGED <<variant, camera, ico, shock, icoHist, shockHist>>

NextJitter == JitterRestartCall

SpecJitter == InitJitter /\ [][NextJitter]_vars

-----------------------------------------------------------------------------
(* The frame loop of main.ts: App.start calls the updater once per frame   *)
(* with delta = min(0.033, clock.getDelta()); the GUI changes perfParams   *)
(* and fixedStep between frames.  Times are counted in 1/6000 s            *)
(* (1/60 s = 100, 1/240 s = 25, 0.033 s = 198, 0.25 s = 1500, 1 ms = 6).   *)
(* A loop state s is [accumulator, fixedStep, sinceLast, maxFPS,           *)
(* physicsEnabled, maxPhysicsAccum] and what the last event did: event,    *)
(* frameDt (the delta handed to the updater), skipped (the updater         *)
(* returned in the FPS limiter), steps (physics.step calls) and updates,   *)
(* updateDt (shockRings.update calls and their argument).  sinceLast is    *)
(* performance.now() - lastFrameTime at the last event.  The manager has   *)
(* nothing active and nothing pending here, so its update(dt) leaves it    *)
(* as it is; the call is counted in updates.                               *)

\* Math.min(0.033, this.clock.getDelta())
DeltaCap == 198

\* the seconds of the clock in the unit of the loop
LoopSecond == 6000

\* sinceLast stops counting here: 1000 / maxFPS ms is at most 1/10 s for
\* the limits the GUI offers
SinceCap == LoopSecond \div 10

\* time between two frames: 8 ms, 50 ms
Elapsed == {48, 300}

\* perfParams.physicsFPS as the GUI sets it (30 .. 240)
PhysicsFPSOpts == {30, 60}

\* perfParams.maxFPS as the GUI sets it (0 = unlimited, .. 240)
MaxFPSOpts == {0, 60}

\* perfParams.maxPhysicsAccum as the GUI sets it (0.1 .. 1.0): 0.1, 0.25
MaxAccumOpts == {600, 1500}

\* while (accumulator >= fixedStep) { ...; physics.step(); ...;
\* accumulator -= fixedStep }: <<accumulator, steps>> when it ends
RECURSIVE FixedStepLoop(_, _, _)
FixedStepLoop(accumulator, fixedStep, steps) ==
    IF accumulator >= fixedStep
    THEN FixedStepLoop(accumulator - fixedStep, fixedStep, steps + 1)
    ELSE <<accumulator, steps>>

\* one frame: the updater of main.ts called by App.start, elapsed after
\* the frame before
FrameUpdater(s, elapsed) ==
    LET dt    == Min(DeltaCap, elapsed)
        since == Min(SinceCap, s.sinceLast + elapsed)
        acc   == IF s.accumulator + dt > s.maxPhysicsAccum
                 THEN s.maxPhysicsAccum
                 ELSE s.accumulator + dt
        loop  == IF s.physicsEnabled
                 THEN FixedStepLoop(acc, s.fixedStep, 0)
                 ELSE <<s.accumulator, 0>>
    IN IF s.maxFPS > 0 /\ since * s.maxFPS < LoopSecond
       THEN [s EXCEPT !.event = "frame", !.frameDt = dt, !.skipped = TRUE,
                      !.sinceLast = since,
                      !.steps = 0, !.updates = 0, !.updateDt = 0]
       ELSE [s EXCEPT !.event = "frame", !.frameDt = dt, !.skipped = FALSE,
                      !.sinceLast = IF s.maxFPS > 0 THEN 0 ELSE since,
                      !.accumulator = loop[1], !.steps = loop[2],
                      !.updates = 1, !.updateDt = dt]

\* main.ts at module load: accumulator = 0, fixedStep = 1 / 60,
\* lastFrameTime = performance.now(), perfParams as declared
LoopNew ==
    [accumulator |-> 0, fixedStep |-> LoopSecond \div 60, sinceLast |-> 0,
     maxFPS |-> 0, physicsEnabled |-> TRUE, maxPhysicsAccum |-> 1500,
     event |-> "load", frameDt |-> 0, skipped |-> FALSE,
     steps |-> 0, updates |-> 0, updateDt |-> 0]

InitLoop ==
    /\ variant = "loop"
    /\ camera = [position |-> <<0, 0, 0>>, quaternion |-> 0, moves |-> 0]
    /\ ico = IcoManagerNew
    /\ icoHist = [HistNew EXCEPT !.peak = Len(ico.rings)]
    /\ shock = ShockManagerNew
    /\ shockHist = HistNew
    /\ sample = LoopNew

\* requestAnimationFrame(animate): one frame
Frame ==
    /\ variant = "loop"
    /\ \E elapsed \in Elapsed : sample' = FrameUpdater(sample, elapsed)
    /\ UNCHANGED <<variant, camera, ico, shock, icoHist, shockHist>>

\* GUI 'Physics FPS': fixedStep = 1 / v
SetPhysicsFPS ==
    /\ variant = "loop"
    /\ \E v \in PhysicsFPSOpts :
          /\ LoopSecond \div v # sample.fixedStep
          /\ sample' = [sample EXCEPT !.event = "gui",
                                      !.fixedStep = LoopSecond \div v]
    /\ UNCHANGED <<variant, camera, ico, shock, icoHist, shockHist>>

\* GUI 'Max FPS (0=unlimited)'
SetMaxFPS ==
    /\ variant = "loop"
    /\ \E v \in MaxFPSOpts :
          /\ v # sample.maxFPS
          /\ sample' = [sample EXCEPT !.event = "gui", !.maxFPS = v]
    /\ UNCHANGED <<variant, camera, ico, shock, icoHist, shockHist>>

\* GUI 'Physics Enabled'
SetPhysicsEnabled ==
    /\ variant = "loop"
    /\ sample' = [sample EXCEPT !.event = "gui",
                                !.physicsEnabled = ~sample.physicsEnabled]
    /\ UNCHANGED <<variant, camera, ico, shock, icoHist, shockHist>>

\* GUI 'Max Physics Accum'
SetMaxPhysicsAccum ==
    /\ variant = "loop"
    /\ \E v \in MaxAccumOpts :
          /\ v # sample.maxPhysicsAccum
          /\ sample' = [sample EXCEPT !.event = "gui", !.maxPhysicsAccum = v]
    /\ UNCHANGED <<variant, camera, ico, shock, icoHist, shockHist>>

NextLoop ==
    \/ Frame
    \/ SetPhysicsFPS
    \/ SetMaxFPS
    \/ SetPhysicsEnabled
    \/ SetMaxPhysicsAccum

SpecLoop == InitLoop /\ [][NextLoop]_vars

-----------------------------------------------------------------------------
(* The keyboard of FPSController: a controller state k is [isFlyMode,      *)
(* moveForward, isSprinting, jumpQueued, flyUp, flyDown] and held, the     *)
(* keys that are down.  KeyS, KeyA and KeyD are handled as KeyW is, and    *)
(* ControlRight as ControlLeft.                                            *)

Codes == {"KeyW", "ShiftLeft", "ShiftRight", "ControlLeft", "Space", "KeyF"}

\* setFlyMode(enabled)
setFlyMode(k, enabled) ==
    IF k.isFlyMode = enabled
    THEN k
    ELSE [k EXCEPT !.isFlyMode = enabled, !.jumpQueued = FALSE,
                   !.flyUp = FALSE, !.flyDown = FALSE]

\* onKeyDown(event), event.code = code
onKeyDown(k, code) ==
    LET h == [k EXCEPT !.held = @ \cup {code}]
    IN CASE code = "KeyW" -> [h EXCEPT !.moveForward = TRUE]
         [] code \in {"ShiftLeft", "ShiftRight"} ->
               IF h.isFlyMode THEN [h EXCEPT !.flyDown = TRUE]
               ELSE [h EXCEPT !.isSprinting = TRUE]
         [] code = "ControlLeft" ->
               IF h.isFlyMode THEN [h EXCEPT !.isSprinting = TRUE] ELSE h
         [] code = "Space" ->
               IF h.isFlyMode THEN [h EXCEPT !.flyUp = TRUE]
               ELSE [h EXCEPT !.jumpQueued = TRUE]
         [] code = "KeyF" -> setFlyMode(h, ~h.isFlyMode)
         [] OTHER -> h

\* onKeyUp(event), event.code = code
onKeyUp(k, code) ==
    LET h == [k EXCEPT !.held = @ \ {code}]
    IN CASE code = "KeyW" -> [h EXCEPT !.moveForward = FALSE]
         [] code \in {"ShiftLeft", "ShiftRight"} ->
               IF h.isFlyMode THEN [h EXCEPT !.flyDown = FALSE]
               ELSE [h EXCEPT !.isSprinting = FALSE]
         [] code = "ControlLeft" ->
               IF h.isFlyMode THEN [h EXCEPT !.isSprinting = FALSE] ELSE h
         [] code = "Space" ->
               IF h.isFlyMode THEN [h EXCEPT !.flyUp = FALSE] ELSE h
         [] OTHER -> h

\* the fields of a new FPSController, then setFlyMode(true) if
\* opts.flyModeInitially
FPSControllerNew(flyModeInitially) ==
    LET k == [isFlyMode |-> FALSE, moveForward |-> FALSE,
              isSprinting |-> FALSE, jumpQueued |-> FALSE,
              flyUp |-> FALSE, flyDown |-> FALSE, held |-> {}]
    IN IF flyModeInitially THEN setFlyMode(k, TRUE) ELSE k

InitKeys ==
    /\ variant = "keys"
    /\ camera = [position |-> <<0, 0, 0>>, quaternion |-> 0, moves |-> 0]
    /\ ico = IcoManagerNew
    /\ icoHist = [HistNew EXCEPT !.peak = Len(ico.rings)]
    /\ shock = ShockManagerNew
    /\ shockHist = HistNew
    /\ \E flyModeInitially \in BOOLEAN :
          sample = FPSControllerNew(flyModeInitially)

\* a key goes down, or repeats while it is held
KeyDown ==
    /\ variant = "keys"
    /\ \E code \in Codes : sample' = onKeyDown(sample, code)
    /\ UNCHANGED <<variant, camera, ico, shock, icoHist, shockHist>>

\* a key that is down is released
KeyUp ==
    /\ variant = "keys"
    /\ \E code \in sample.held : sample' = onKeyUp(sample, code)
    /\ UNCHANGED <<variant, camera, ico, shock, icoHist, shockHist>>

\* GUI 'Toggle Fly (F)': controller.setFlyMode(!isFlyModeEnabled())
ToggleFly ==
    /\ variant = "keys"
    /\ sample' = setFlyMode(sample, ~sample.isFlyMode)
    /\ UNCHANGED <<variant, camera, ico, shock, icoHist, shockHist>>

\* updateBeforePhysics takes the queued jump away in either mode
UpdateBeforePhysics ==
    /\ variant = "keys"
    /\ sample.jumpQueued
    /\ sample' = [sample EXCEPT !.jumpQueued = FALSE]
    /\ UNCHANGED <<variant, camera, ico, shock, icoHist, shockHist>>

NextKeys ==
    \/ KeyDown
    \/ KeyUp
    \/ ToggleFly
    \/ UpdateBeforePhysics

SpecKeys == InitKeys /\ [][NextKeys]_vars

-----------------------------------------------------------------------------
(* Vocabulary of the claims *)

\* how often identity r occurs in the list s
Occurrences(s, r) == Cardinality({i \in DOMAIN s : s[i] = r})

\* no identity occurs twice in the list s
NoDuplicates(s) == Cardinality(Range(s)) = Len(s)

\* the sum of the dt of the update calls that have aged instance o since the
\* spawn that (re)started it; the update that fires a pending request ages
\* the instance it spawns, and counts
SumDt(h, o) == h.clock - o.born

\* the positions of the pending requests that carry request number rid
PendingOf(m, rid) == {i \in DOMAIN m.pending : m.pending[i].opts.tag.rid = rid}

\* the positions of the pending requests that spawnAssembly call k enqueued
PendingOfAssembly(m, k) == {i \in DOMAIN m.pending : m.pending[i].opts.tag.asm = k}

\* the active instances that spawnAssembly call k spawned
ActiveOfAssembly(m, k) == {r \in Range(m.rings) : m.obj[r].tag.asm = k}

-----------------------------------------------------------------------------
(* C1: IcoRingsManager: in every state between calls, pool.length +        *)
(* rings.length equals the number of IcoRing instances the manager has     *)
(* ever constructed.                                                       *)

C1_PoolPlusActiveIsConstructed ==
    Len(ico.pool) + Len(ico.rings) = Len(ico.obj)

\* an instance was constructed on pool exhaustion and one was released since
C1_Witness ==
    /\ Len(ico.obj) > poolSize
    /\ Len(ico.pool) > 0

(* C2: IcoRingsManager: no instance is both in the pool and in the active  *)
(* list, and none occurs twice in the pool or twice in the active list.    *)

C2_FreeOrActiveNeverBoth ==
    /\ Range(ico.pool) \cap Range(ico.rings) = {}
    /\ NoDuplicates(ico.pool)
    /\ NoDuplicates(ico.rings)
    /\ Range(ico.pool) \cup Range(ico.rings) \subseteq DOMAIN ico.obj

\* the prewarm render instance, released when its life ended, is active again
\* by a later spawn, and another released instance is in the pool
C2_Witness ==
    /\ poolSize \in Range(ico.rings)
    /\ ico.obj[poolSize].born >= IcoLifeFloor
    /\ \E q \in Range(ico.pool) : ico.obj[q].age > 0

(* C3: both managers: when update returns every instance in the active     *)
(* list is alive, and every instance that is not alive is outside the      *)
(* active list (and, for IcoRingsManager, in the pool), also when several  *)
(* instances die in the same update.                                       *)

C3_NoDeadInstanceStaysActive ==
    /\ \A r \in DOMAIN ico.obj :
          /\ r \in Range(ico.rings) => ico.obj[r].alive
          /\ ~ico.obj[r].alive => r \notin Range(ico.rings) /\ r \in Range(ico.pool)
    /\ \A r \in DOMAIN shock.obj :
          /\ r \in Range(shock.rings) => shock.obj[r].alive
          /\ ~shock.obj[r].alive => r \notin Range(shock.rings)

\* two instances died in the same update while a third stayed alive
C3_Witness ==
    \E a, b \in Range(ico.pool) :
        /\ a # b
        /\ ico.obj[a].age > 0 /\ ico.obj[b].age > 0
        /\ ico.obj[a].born + ico.obj[a].age = ico.obj[b].born + ico.obj[b].age
        /\ ico.rings # <<>>

(* C4: IcoRingsManager: an instance spawned with lifeSeconds = L, L at or  *)
(* above the floor, is alive and in the active list while the dt of the    *)
(* updates since its spawn sum to less than L; once the sum is >= L it is  *)
(* dead, outside the active list and exactly once in the pool.             *)

C4_IcoLifetime ==
    \A r \in DOMAIN ico.obj :
        LET o == ico.obj[r]
            L == o.reqLife
            S == SumDt(icoHist, o)
        IN (L # Unset /\ L >= IcoLifeFloor) =>
              /\ S < L  => /\ o.alive
                           /\ Occurrences(ico.rings, r) = 1
                           /\ Occurrences(ico.pool, r) = 0
              /\ S >= L => /\ ~o.alive
                           /\ Occurrences(ico.rings, r) = 0
                           /\ Occurrences(ico.pool, r) = 1

\* an instance spawned with L = 0.2 s died in the update that brought the sum
\* to exactly L, one tick after a state in which it was alive
C4_Witness ==
    \E r \in DOMAIN ico.obj :
        /\ ico.obj[r].reqLife = 20
        /\ ico.obj[r].age = 20
        /\ ~ico.obj[r].alive
        /\ r \in Range(ico.pool)

(* C5: ShockRingManager: an instance spawned with lifeSeconds = L (L at or *)
(* above the floor) is alive and in the active list while the dt of the    *)
(* updates since its spawn sum to S < L and S / L has not reached          *)
(* fadeStart + 0.99 * (fadeEnd' - fadeStart), the point where the fade     *)
(* value is 0.01, with fadeEnd' = max(fadeEnd, fadeStart + 0.001); it is   *)
(* dead and outside the active list once S >= L or that point is reached.  *)

C5_ShockLifetime ==
    \A r \in DOMAIN shock.obj :
        LET o  == shock.obj[r]
            L  == o.reqLife
            S  == SumDt(shockHist, o)
            fs == o.fadeStart
            fe == Max(fs + FadeGap, o.fadeEnd)
            faded == 100 * (1000 * S - fs * L) >= 99 * (fe - fs) * L
        IN L >= ShockLifeFloor =>
              /\ (S < L /\ ~faded) => o.alive /\ Occurrences(shock.rings, r) = 1
              /\ (S >= L \/ faded) => ~o.alive /\ Occurrences(shock.rings, r) = 0

\* an instance spawned with L = 0.2 s is dead before the sum reached L
C5_Witness ==
    \E r \in DOMAIN shock.obj :
        /\ shock.obj[r].reqLife = 20
        /\ SumDt(shockHist, shock.obj[r]) < 20
        /\ ~shock.obj[r].alive
        /\ r \notin Range(shock.rings)

\* C5 as stated: for any fade window the instance is alive and active while
\* the sum is below L, and dead and removed once the sum is >= L (taken for
\* L at or above the floor, which is the weaker statement)
C5_AliveUntilLifeSeconds ==
    \A r \in DOMAIN shock.obj :
        LET o == shock.obj[r]
            L == o.reqLife
            S == SumDt(shockHist, o)
        IN L >= ShockLifeFloor =>
              /\ S < L  => o.alive /\ r \in Range(shock.rings)
              /\ S >= L => ~o.alive /\ r \notin Range(shock.rings)

(* C6: both managers: a pending request enqueued with delay d > 0 is       *)
(* pending and has caused no spawn in every state where the dt of the      *)
(* updates since it was enqueued sum to less than d, and it has caused     *)
(* its spawn and left the queue in every state where they sum to >= d; so  *)
(* spawnAfter(0.06), update(0.03), update(0.04) spawns in the second       *)
(* update and not in the first.                                            *)

DelayedSpawnIsTimely(m, h) ==
    /\ \A i \in DOMAIN m.pending :
          h.clock - m.pending[i].enq < m.pending[i].d0
    /\ \A rid \in DOMAIN h.req :
          LET q == h.req[rid]
          IN /\ q.d0 > 0
             /\ h.clock - q.enq < q.d0 =>
                   q.fired = 0 /\ Cardinality(PendingOf(m, rid)) = 1
             /\ h.clock - q.enq >= q.d0 =>
                   /\ q.fired = 1
                   /\ q.firedAt - q.enq >= q.d0
                   /\ PendingOf(m, rid) = {}

C6_DelayedSpawnFiresWhenDue ==
    /\ DelayedSpawnIsTimely(ico, icoHist)
    /\ DelayedSpawnIsTimely(shock, shockHist)

\* a request enqueued with delay 0.06 has just fired in the update that
\* brought the sum to 0.07, after an update that left it pending
C6_Witness ==
    \E rid \in DOMAIN shockHist.req :
        /\ shockHist.req[rid].fired = 1
        /\ shockHist.req[rid].d0 = 6
        /\ shockHist.req[rid].firedAt - shockHist.req[rid].enq = 7
        /\ shockHist.clock = shockHist.req[rid].firedAt
        /\ \E r \in Range(shock.rings) : shock.obj[r].tag.rid = rid

(* C7: both managers: every pending request is either still in the queue,  *)
(* with its delay decremented by every update since it was enqueued and    *)
(* still positive, or it has left the queue and has caused exactly one     *)
(* spawn; none is skipped or fired twice when several fire in one update.  *)

EachRequestSpawnsOnce(m, h) ==
    /\ \A rid \in DOMAIN h.req :
          /\ Cardinality(PendingOf(m, rid)) + h.req[rid].fired = 1
          /\ h.req[rid].fired \in {0, 1}
    /\ \A i \in DOMAIN m.pending :
          LET p == m.pending[i]
          IN /\ p.opts.tag.rid \in DOMAIN h.req
             /\ p.delay > 0
             /\ p.delay = p.d0 - (h.clock - p.enq)

C7_EachRequestSpawnsOnce ==
    /\ EachRequestSpawnsOnce(ico, icoHist)
    /\ EachRequestSpawnsOnce(shock, shockHist)
    /\ \A rid \in DOMAIN shockHist.req :
          Cardinality({r \in DOMAIN shock.obj : shock.obj[r].tag.rid = rid})
             = shockHist.req[rid].fired

\* two requests fired in one update that left two later requests pending, and
\* a later update has run since
C7_Witness ==
    \E a, b \in DOMAIN icoHist.req :
        /\ a # b
        /\ icoHist.req[a].fired = 1 /\ icoHist.req[b].fired = 1
        /\ icoHist.req[a].firedAt = icoHist.req[b].firedAt
        /\ icoHist.clock > icoHist.req[a].firedAt
        /\ Len(ico.pending) = 2

(* C8: both managers: requests that fire in the same update are spawned in *)
(* the order in which they were enqueued, so of two active instances       *)
(* spawned by requests fired in the same update the one enqueued first     *)
(* (the second stage of spawnAssembly) precedes the other (the third       *)
(* stage) in the active list.                                              *)

FiredInQueueOrder(m, h) ==
    \A i, j \in DOMAIN m.rings :
        LET a == m.obj[m.rings[i]].tag
            b == m.obj[m.rings[j]].tag
        IN (/\ i < j
            /\ a.rid > 0 /\ b.rid > 0
            /\ h.req[a.rid].firedAt = h.req[b.rid].firedAt) => a.rid < b.rid

C8_FiredInFifoOrder ==
    /\ FiredInQueueOrder(ico, icoHist)
    /\ FiredInQueueOrder(shock, shockHist)

(* C9: both managers: one spawnAssembly() call has caused exactly one      *)
(* spawn and holds exactly two pending requests, both enqueued with delay  *)
(* 0.06 s, until the dt of the following updates sum to 0.06 s; from then  *)
(* on it has caused exactly three spawns and holds no request.             *)

AssemblyCausesThreeSpawns(m, h) ==
    \A k \in DOMAIN h.asm :
        LET a == h.asm[k]
            P == PendingOfAssembly(m, k)
        IN /\ a.rid + 1 \in DOMAIN h.req
           /\ \A rid \in {a.rid, a.rid + 1} :
                 h.req[rid].d0 = AssemblyDelay /\ h.req[rid].enq = a.at
           /\ \A i \in P : m.pending[i].opts.tag.rid \in {a.rid, a.rid + 1}
           /\ h.clock - a.at < AssemblyDelay => a.spawns = 1 /\ Cardinality(P) = 2
           /\ h.clock - a.at >= AssemblyDelay => a.spawns = 3 /\ P = {}

C9_AssemblyCausesThreeSpawns ==
    /\ AssemblyCausesThreeSpawns(ico, icoHist)
    /\ AssemblyCausesThreeSpawns(shock, shockHist)
    /\ Len(icoHist.req) = 2 * Len(icoHist.asm)
    /\ Len(shockHist.req) = 2 * Len(shockHist.asm)

\* an assembly has caused its three spawns and updates summing to a further
\* 0.06 s have run since
C9_Witness ==
    \E k \in DOMAIN shockHist.asm :
        /\ shockHist.asm[k].spawns = 3
        /\ shockHist.clock - shockHist.asm[k].at >= 2 * AssemblyDelay
        /\ Cardinality(ActiveOfAssembly(shock, k)) = 3

(* C10: on a freshly constructed ShockRingManager, spawnAssembly()         *)
(* followed by updates whose dt sum to >= 0.06 s (and to less than any     *)
(* instance's lifetime) leaves exactly 3 instances in the active list; on  *)
(* a freshly constructed IcoRingsManager it leaves the 3 instances of the  *)
(* assembly and, until its lifetime of 0.2 s has passed, the prewarm       *)
(* render instance of the constructor: 4 active instances while the sum is *)
(* below 0.2 s and 3 from then on.                                         *)

\* the only call made on the manager was spawnAssembly(), before any update,
\* and the updates since sum to >= 0.06 s
AssemblyOnFresh(h) ==
    /\ h.nCalls = 1
    /\ Len(h.asm) = 1
    /\ h.asm[1].at = 0
    /\ h.clock >= AssemblyDelay

\* the updates sum to less than the lifetime of every instance spawned so far
BelowEveryLifetime(m, h) ==
    \A r \in DOMAIN m.obj :
        m.obj[r].reqLife # Unset =>
            h.clock < (IF "udLife" \in DOMAIN m.obj[r] THEN m.obj[r].udLife
                       ELSE m.obj[r].lifeSeconds)

-----------------------------------------------------------------------------
(* C11: ShockRingManager.spawnAssembly: the third stage yields an active   *)
(* instance whose growthMode is collapseThenGrow with collapseAt = 0.06,   *)
(* collapseScale = 0.05 and recoverAt = 0.2; the growthMode, collapseAt,   *)
(* collapseScale and recoverAt given to spawn reach the created instance.  *)

\* the active instances that a stage of spawnAssembly spawned
ActiveOfStage(m, stage) == {r \in Range(m.rings) : m.obj[r].tag.stage = stage}

\* C11 as stated; spawn hands the constructor a table without these four
\* options, so the third stage is built with the constructor's defaults
C11_ThirdStageCollapsesThenGrows ==
    /\ \A r \in ActiveOfStage(shock, 3) :
          /\ shock.obj[r].growthMode = 1
          /\ shock.obj[r].collapseAt = 60
          /\ shock.obj[r].collapseScale = 50
          /\ shock.obj[r].recoverAt = 200
    /\ \A r \in ActiveOfStage(shock, 1) \cup ActiveOfStage(shock, 2) :
          shock.obj[r].growthMode = 0

-----------------------------------------------------------------------------
(* C12: a call of spawn(options), from any reachable state, returns an     *)
(* instance with age 0 that is alive and visible (in the scene, for the    *)
(* volumetric variant); the active list has grown by exactly that          *)
(* instance, appended as its last element and occurring in it once, and    *)
(* no instance that was active before the call has changed.                *)

\* m0 is the manager before spawn and m the manager after it
SpawnAppendsFreshInstance(m0, m) ==
    /\ Len(m.rings) = Len(m0.rings) + 1
    /\ SubSeq(m.rings, 1, Len(m0.rings)) = m0.rings
    /\ LET r == m.rings[Len(m.rings)]
       IN /\ Occurrences(m.rings, r) = 1
          /\ m.obj[r].age = 0
          /\ m.obj[r].alive
          /\ IF "visible" \in DOMAIN m.obj[r] THEN m.obj[r].visible
             ELSE m.obj[r].inScene
    /\ \A q \in Range(m0.rings) : m.obj[q] = m0.obj[q]

C12_SpawnPostcondition ==
    [][/\ IcoSpawnCall => SpawnAppendsFreshInstance(ico, ico')
       /\ ShockSpawnCall => SpawnAppendsFreshInstance(shock, shock')]_vars

\* spawn has just reused an instance that lived before, next to an instance
\* that is still active
C12_Witness ==
    /\ Len(ico.rings) >= 2
    /\ LET r == ico.rings[Len(ico.rings)]
       IN /\ r <= poolSize
          /\ ico.obj[r].tag = NoTag
          /\ ico.obj[r].reqLife # Unset
          /\ ico.obj[r].born >= IcoLifeFloor
          /\ ico.obj[r].age = 0
          /\ r = poolSize
          /\ ico.obj[ico.rings[1]].age >= IcoLifeFloor

-----------------------------------------------------------------------------
(* C13: IcoRingsManager.spawn on a reused pooled instance does not depend  *)
(* on the previous lives of that instance: whichever pooled instance       *)
(* acquire returns, spawn with the same options resolves the same          *)
(* lifeSeconds, startRadius, endRadius, moveSpeed, fadeStart, fadeEnd,     *)
(* growthExponent and growthDelay; an option that is not given takes the   *)
(* manager's default.                                                      *)

\* the parameters of instance o that spawn resolves from its options
Resolved(o) ==
    [lifeSeconds |-> o.udLife, startRadius |-> o.udStartRadius,
     endRadius |-> o.udEndRadius, moveSpeed |-> o.moveSpeed,
     fadeStart |-> o.udFadeStart, fadeEnd |-> o.udFadeEnd,
     growthExponent |-> o.udGrowthExponent, growthDelay |-> o.udGrowthDelay]

\* the manager's defaults
ResolvedDefaults ==
    [f \in DOMAIN Resolved(ico.obj[1]) |-> IcoParams[f]]

\* instance r after spawn(opts), were r the instance that acquire returns
SpawnOn(m, r, opts) ==
    IcoSpawn([m EXCEPT !.pool = <<r>>], opts, icoHist.clock).obj[r]

\* the options spawn is called with: by the caller, and by spawnAssembly
SpawnCallOpts ==
    IcoSpawnOpts \cup {IcoAssemblyOpts(1, stage, 0) : stage \in 1..3}

C13_SpawnForgetsPreviousLives ==
    variant = "ico" =>
    /\ \A opts \in SpawnCallOpts :
          Len(ico.pool) > 0 =>
             LET first == Resolved(SpawnOn(ico, ico.pool[1], opts))
             IN \A r \in Range(ico.pool) : Resolved(SpawnOn(ico, r, opts)) = first
    /\ Len(ico.pool) > 0 =>
          LET last == ico.pool[Len(ico.pool)]
          IN /\ Resolved(SpawnOn(ico, last, IcoNoOpts)) = ResolvedDefaults
             /\ Resolved(SpawnOn(ico, last, [IcoNoOpts EXCEPT !.lifeSeconds = 20])) =
                   [ResolvedDefaults EXCEPT !.lifeSeconds = 20]
    /\ \A r \in Range(ico.rings) :
          (ico.obj[r].age = 0 /\ ico.obj[r].reqLife = IcoParams.lifeSeconds
              /\ ico.obj[r].tag = NoTag) =>
             Resolved(ico.obj[r]) = ResolvedDefaults

\* an instance that lived before has been spawned again with no option
\* given and carries the defaults, while the pool holds two instances whose
\* last lives left different parameters
C13_Witness ==
    /\ \E r \in Range(ico.rings) :
          /\ r <= poolSize
          /\ ico.obj[r].born >= IcoLifeFloor
          /\ ico.obj[r].age = 0
          /\ Resolved(ico.obj[r]) = ResolvedDefaults
    /\ \E r1, r2 \in Range(ico.pool) :
          /\ Resolved(ico.obj[r1]) # Resolved(ico.obj[r2])
          /\ ico.obj[r1].udGrowthDelay = 950

-----------------------------------------------------------------------------
(* C14: IcoRingsManager: every stage of spawnAssembly is spawned at        *)
(* initialPosition + direction * spawnDistance with orientation            *)
(* initialQuaternion, the camera pose captured when spawnAssembly was      *)
(* called, whatever the camera pose is when the instance is restarted.     *)

\* where instance o was when it was spawned: update has moved it by
\* moveDir * moveSpeed * dt per call since
SpawnPosition(o) ==
    VecAdd(o.position, VecScale(o.moveDir, -(o.moveSpeed * o.age)))

\* C14 as stated; spawn hands restart a table without direction,
\* initialPosition and initialQuaternion, so restart reads the camera
C14_StagesSpawnAtTriggerPose ==
    \A r \in Range(ico.rings) :
        LET o == ico.obj[r]
        IN o.tag.asm > 0 =>
              LET call == icoHist.asm[o.tag.asm]
                  dist == IcoAssemblyOpts(o.tag.asm, o.tag.stage, 0).spawnDistance
              IN /\ o.quaternion = call.quaternion
                 /\ SpawnPosition(o) =
                       VecAdd(call.position,
                              VecScale(WorldDirection(call.quaternion), dist))

-----------------------------------------------------------------------------
(* C15: both managers: once an instance is spawned, no step changes its    *)
(* orientation or its movement direction, and its position changes only    *)
(* by moveDir * moveSpeed * dt in an update(dt); a camera move changes     *)
(* nothing of it.                                                          *)

\* m is the manager before a step, m2 after it, dt the step's update delta
\* (0 when the step is no update)
PoseIsOwn(m, m2, dt) ==
    \A r \in Range(m.rings) :
        /\ m2.obj[r].quaternion = m.obj[r].quaternion
        /\ m2.obj[r].moveDir = m.obj[r].moveDir
        /\ m2.obj[r].position =
              VecAdd(m.obj[r].position,
                     VecScale(m.obj[r].moveDir, m.obj[r].moveSpeed * dt))

C15_PoseCopiedAtSpawn ==
    [][/\ PoseIsOwn(ico, ico', icoHist'.clock - icoHist.clock)
       /\ PoseIsOwn(shock, shock', shockHist'.clock - shockHist.clock)]_vars

\* the camera turned after the main stage was spawned; the main stage has
\* since been updated, keeps its orientation and has moved along its own
\* direction only
C15_Witness ==
    \E r1, r2 \in Range(shock.rings) :
        /\ shock.obj[r1].tag.stage = 1
        /\ shock.obj[r2].tag.stage = 2
        /\ shock.obj[r1].quaternion # shock.obj[r2].quaternion
        /\ shock.obj[r1].quaternion # camera.quaternion
        /\ shock.obj[r1].age > shock.obj[r2].age
        /\ shock.obj[r1].position # SpawnPosition(shock.obj[r1])
        /\ SpawnPosition(shock.obj[r1]) =
              VecScale(WorldDirection(shock.obj[r1].quaternion), 1500)

-----------------------------------------------------------------------------
(* C16: swarm instance: the capacity is the sub-instance count of the      *)
(* construction and never changes; after every restart                     *)
(* 1 <= instanceCount <= capacity and instanceCount = min(capacity,        *)
(* max(1, floor(requested count))); a restart that requests capacity + 50  *)
(* sub-instances on an instance of capacity 80 leaves instanceCount = 80.  *)

C16_CountClampedToCapacity ==
    /\ \A r \in DOMAIN ico.obj :
          LET o == ico.obj[r]
          IN /\ o.capacity = Max(1, Floor(IcoParams.count))
             /\ 1 <= o.instanceCount
             /\ o.instanceCount <= o.capacity
             /\ o.reqCount # Unset =>
                   o.instanceCount = Min(o.capacity, Max(1, Floor(o.reqCount)))
    /\ LET o == IcoRingNew(IcoNoOpts)
       IN /\ o.capacity = 80
          /\ IcoRingRestart(o, [IcoNoOpts EXCEPT !.count = 10 * (o.capacity + 50)],
                            0).instanceCount = 80

\* an instance restarted with 134.5 sub-instances requested holds its
\* capacity of 84, next to the prewarm render instance restarted with one
C16_Witness ==
    \E r1, r2 \in DOMAIN ico.obj :
        /\ ico.obj[r1].reqCount = 1345
        /\ ico.obj[r1].instanceCount = 84
        /\ ico.obj[r1].capacity = 84
        /\ ico.obj[r2].reqCount = 10
        /\ ico.obj[r2].instanceCount = 1
        /\ ico.obj[r2].capacity = 84

-----------------------------------------------------------------------------
(* C17: IcoRingsManager.spawn always succeeds: from every reachable state  *)
(* it appends one instance to the active list, and it constructs an        *)
(* instance (exactly one) if and only if the pool is empty; the number     *)
(* of constructed instances never exceeds max(prewarm size, peak length    *)
(* of the active list), the peak taken over every moment, also inside a    *)
(* call.                                                                   *)

C17_SpawnConstructsOnlyWhenPoolEmpty ==
    /\ variant = "ico" =>
          \A opts \in IcoSpawnOpts :
              LET m == IcoSpawn(ico, opts, icoHist.clock)
              IN /\ Len(m.rings) = Len(ico.rings) + 1
                 /\ Len(m.obj) - Len(ico.obj) = (IF Len(ico.pool) = 0 THEN 1 ELSE 0)
                 /\ Len(m.pool) = (IF Len(ico.pool) = 0 THEN 0 ELSE Len(ico.pool) - 1)
    /\ Len(ico.obj) <= Max(poolSize, icoHist.peak)

\* a seventh instance was constructed in an update that fired four requests
\* while the prewarm render instance was still active, and that then
\* released the prewarm render instance: six instances are active
C17_Witness ==
    /\ Len(ico.obj) = poolSize + 1
    /\ icoHist.peak = poolSize + 1
    /\ Len(ico.rings) = poolSize
    /\ Len(ico.pool) = 1

-----------------------------------------------------------------------------
(* C18: ShockRingManager reuses dead instances: the number of instances   *)
(* it has constructed never exceeds the peak length of its active list.   *)

C18_ShockInstancesReused ==
    Len(shock.obj) <= shockHist.peak

-----------------------------------------------------------------------------
(* C19: once setMaxRings(n) was called, the active list of                *)
(* ShockRingManager holds at most n instances.                            *)

C19_SetMaxRingsLimitsActive ==
    shockHist.maxRings # Unset => Len(shock.rings) <= shockHist.maxRings

-----------------------------------------------------------------------------
(* C20: every clearAll() step leaves the active list of ShockRingManager  *)
(* empty.                                                                 *)

C20_ClearAllEmptiesActive ==
    [][ShockClearAllCall => Len(shock'.rings) = 0]_vars

-----------------------------------------------------------------------------
(* C21: both managers: spawnAfter changes the pending queue only.  A       *)
(* spawnAssembly step (one spawn, two spawnAfter) acquires for its main    *)
(* spawn alone; an update step in which no request's delay reaches <= 0    *)
(* spawns nothing, constructs nothing and takes nothing from the pool:     *)
(* it only lowers the delays and moves dead instances out of the active    *)
(* list.                                                                   *)

\* no request of m is due in update(dt)
NoRequestDue(m, dt) ==
    \A i \in DOMAIN m.pending : m.pending[i].delay - dt > 0

\* s is t with some elements left out
IsSubSeq(s, t) ==
    /\ Range(s) \subseteq Range(t)
    /\ \A i, j \in DOMAIN s :
          i < j => \E a, b \in DOMAIN t : a < b /\ t[a] = s[i] /\ t[b] = s[j]

\* the requests of m0 are all in m, in their order, each dt nearer
WaitsOn(m0, m, dt) ==
    /\ Len(m.pending) = Len(m0.pending)
    /\ \A i \in DOMAIN m0.pending :
          m.pending[i] = [m0.pending[i] EXCEPT !.delay = @ - dt]

-----------------------------------------------------------------------------
(* C22: death is one-way.  update(dt) on a dead instance changes nothing;  *)
(* in every step a dead instance stays as it is unless a spawn of that     *)
(* step restarted it (then its life starts at the step's clock and its     *)
(* age is what the step's update has added since); a dead volumetric       *)
(* instance never changes again; the age of a live instance grows by the   *)
(* dt of the step and is never set back while it lives.                    *)

\* m0 is a manager before a step, m after it; dt is the step's update time
\* (0 for a call that is no update), spawns tells whether the step spawned
DeadUnlessRestarted(m0, m, dt, now, spawns) ==
    \A r \in DOMAIN m0.obj :
        ~m0.obj[r].alive =>
            \/ m.obj[r] = m0.obj[r]
            \/ /\ spawns
               /\ m.obj[r].born = now
               /\ m.obj[r].age = dt

LiveAgesOnly(m0, m, dt) ==
    \A r \in DOMAIN m0.obj :
        m0.obj[r].alive =>
            /\ m.obj[r].age = m0.obj[r].age + dt
            /\ m.obj[r].born = m0.obj[r].born

C22_DeathIsOneWay ==
    [][/\ \A r \in DOMAIN ico.obj : \A dt \in Dts :
             ~ico.obj[r].alive => IcoRingUpdate(ico.obj[r], dt) = ico.obj[r]
       /\ \A r \in DOMAIN shock.obj : \A dt \in Dts :
             ~shock.obj[r].alive => ShockRingUpdate(shock.obj[r], dt) = shock.obj[r]
       /\ DeadUnlessRestarted(ico, ico', icoHist'.clock - icoHist.clock,
                              icoHist.clock,
                              \/ IcoSpawnCall
                              \/ IcoSpawnAssemblyCall
                              \/ ~NoRequestDue(ico, icoHist'.clock - icoHist.clock))
       /\ DeadUnlessRestarted(shock, shock', 0, 0, FALSE)
       /\ LiveAgesOnly(ico, ico', icoHist'.clock - icoHist.clock)
       /\ LiveAgesOnly(shock, shock', shockHist'.clock - shockHist.clock)
      ]_vars

\* an instance that has lived a whole life of 0.2 s and was released is
\* alive again, restarted by a spawn at clock 0.2 s; another one is dead
C22_Witness ==
    /\ icoHist.clock >= IcoLifeFloor
    /\ Len(ico.rings) = 1
    /\ Len(ico.obj) = poolSize
    /\ LET o == ico.obj[ico.rings[1]]
       IN o.alive /\ o.born = icoHist.clock /\ o.age = 0
    /\ \E r \in Range(ico.pool) : ico.obj[r].age >= IcoLifeFloor

-----------------------------------------------------------------------------
(* C23: the resolved parameters of every instance of either variant, at    *)
(* construction and after every restart, whatever options were given       *)
(* (negative radii, zero or negative life, endRadius < startRadius,        *)
(* growthExponent <= 0, growthDelay outside [0, 0.95]), satisfy            *)
(* lifeSeconds >= 0.2, startRadius >= 0.05, endRadius >= startRadius,      *)
(* growthExponent >= 0.1 and 0 <= growthDelay <= 0.95.                     *)

IcoResolvedInRange(o) ==
    /\ o.lifeSeconds >= IcoLifeFloor
    /\ o.udLife >= IcoLifeFloor
    /\ o.udStartRadius >= 15
    /\ o.udEndRadius >= o.udStartRadius
    /\ o.udGrowthExponent >= 10
    /\ 0 <= o.udGrowthDelay /\ o.udGrowthDelay <= 950

ShockResolvedInRange(o) ==
    /\ o.lifeSeconds >= ShockLifeFloor
    /\ o.startRadiusWorld >= 15
    /\ o.endRadiusWorld >= o.startRadiusWorld
    /\ o.growthExponent >= 10
    /\ 0 <= o.growthDelay /\ o.growthDelay <= 950

\* the options of IcoSpawnOpts, also with a zero and a negative lifetime
IcoUnrulyOpts ==
    IcoSpawnOpts \cup {[opts EXCEPT !.lifeSeconds = l] :
                          opts \in IcoSpawnOpts, l \in {-100, 0}}

C23_ResolvedParametersInRange ==
    /\ \A r \in DOMAIN ico.obj :
          /\ IcoResolvedInRange(ico.obj[r])
          /\ \A opts \in IcoUnrulyOpts :
                IcoResolvedInRange(IcoRingRestart(ico.obj[r], IcoSpawnTable(opts),
                                                  icoHist.clock))
    /\ \A opts \in IcoUnrulyOpts : IcoResolvedInRange(IcoRingNew(IcoSpawnTable(opts)))
    /\ \A r \in DOMAIN shock.obj : ShockResolvedInRange(shock.obj[r])
    /\ \A opts \in ShockRingOpts : ShockResolvedInRange(
             ShockRingNew(opts, 0, GetSharedNoise3D(shock.noise3D).cached))

\* an active instance restarted with every parameter outside its range:
\* each one sits on the bound nearest to what was asked for
C23_Witness ==
    \E r \in Range(ico.rings) :
        LET o == ico.obj[r]
        IN /\ o.reqCount = 1345
           /\ o.udLife = IcoLifeFloor
           /\ o.udStartRadius = 15
           /\ o.udEndRadius = 15
           /\ o.udGrowthExponent = 10
           /\ o.udGrowthDelay = 950

-----------------------------------------------------------------------------
(* C24: every spawned instance of either variant has a fade window with    *)
(* 0 <= fadeStart < fadeEnd <= 1: for the swarm variant the window handed  *)
(* to rendering (userData.ico), for the volumetric variant the window      *)
(* update uses, fadeStart and max(fadeStart + 0.001, fadeEnd).             *)

FadeWindowOrdered(fs, fe) == 0 <= fs /\ fs < fe /\ fe <= 1000

\* C24 as stated; IcoRing.restart clamps the two ends to [0, 1] one by one
\* and forces no gap, and ShockRing.update forces the gap after the clamp
C24_FadeWindowOrdered ==
    /\ \A r \in Range(ico.rings) :
          FadeWindowOrdered(ico.obj[r].udFadeStart, ico.obj[r].udFadeEnd)
    /\ \A r \in Range(shock.rings) :
          FadeWindowOrdered(shock.obj[r].fadeStart,
                            Max(shock.obj[r].fadeStart + FadeGap, shock.obj[r].fadeEnd))

-----------------------------------------------------------------------------
(* C25: a volumetric instance stores collapseAt < recoverAt for every      *)
(* collapseAt / recoverAt option pair, and the phase boundaries of update, *)
(* tc = min(collapseAt, 0.95) and tr = max(recoverAt, tc + 0.01), satisfy  *)
(* tc < tr.                                                                *)

\* C25 as stated; the constructor raises recoverAt above the collapseAt
\* that was asked for, not above the clamped one it stores
C25_CollapseBeforeRecover ==
    \A r \in DOMAIN shock.obj :
        LET o  == shock.obj[r]
            tc == Min(o.collapseAt, 950)
            tr == Max(o.recoverAt, tc + 10)
        IN /\ o.collapseAt < o.recoverAt
           /\ tc < tr

-----------------------------------------------------------------------------
(* C26: the normalized major radius Rmajor of a live volumetric instance   *)
(* is strictly between 0 and 0.5, at construction and after every update,  *)
(* in both growth modes and for every collapseScale in [0, 1].             *)

\* C26 as stated; with collapseScale = 0 the collapse ends on radius 0
C26_RmajorInsideUnitCube ==
    \A r \in DOMAIN shock.obj :
        shock.obj[r].alive =>
            /\ FracLess(<<0, 1>>, ShockRmajor(shock.obj[r]))
            /\ FracLess(ShockRmajor(shock.obj[r]), <<1, 2>>)

-----------------------------------------------------------------------------
(* C27: the volumetric fade value as a function of the life fraction t.    *)
(* As stated: for every fade window with fadeStart < fadeEnd it is 1 for   *)
(* t <= fadeStart, 0 for t >= fadeEnd, 1 - (t - fadeStart) / (fadeEnd -    *)
(* fadeStart) in between, and it never increases as t grows.  Amended:     *)
(* the same with fadeEnd' = max(fadeEnd, fadeStart + 0.001) in place of    *)
(* fadeEnd.                                                                *)

\* the value at sample.t is the piecewise linear curve of window [fs, fe],
\* and it is not above the value at the previous t
FadeIsLinearOn(fs, fe) ==
    LET fade == Frac(sample.fade[1], sample.fade[2])
        prev == Frac(sample.prev[1], sample.prev[2])
    IN /\ sample.t <= fs => fade = <<1, 1>>
       /\ sample.t >= fe => fade = <<0, 1>>
       /\ (fs < sample.t /\ sample.t < fe) => fade = Frac(fe - sample.t, fe - fs)
       /\ FracLeq(fade, prev)

\* C27 as stated; a window narrower than 0.001 is widened by update
C27_FadePiecewiseLinear ==
    (variant = "fade" /\ sample.fadeStart < sample.fadeEnd) =>
        FadeIsLinearOn(sample.fadeStart, sample.fadeEnd)

C27_FadePiecewiseLinearWithGap ==
    variant = "fade" =>
        FadeIsLinearOn(sample.fadeStart,
                       Max(sample.fadeEnd, sample.fadeStart + (FadeGap * FadeOne) \div 1000))

\* a window 0.0005 wide: at its fadeEnd the value is one half, not 0
C27_Witness ==
    /\ variant = "fade"
    /\ sample.fadeEnd - sample.fadeStart = 1
    /\ sample.t = sample.fadeEnd
    /\ Frac(sample.fade[1], sample.fade[2]) = <<1, 2>>
    /\ sample.prev = <<1, 1>>

-----------------------------------------------------------------------------
(* C28: default growth mode: the radius that update computes never         *)
(* decreases as the life fraction t grows from 0 to 1; it is startRadius   *)
(* for every t <= growthDelay and endRadius at t = 1.                      *)

C28_GrowthIsMonotone ==
    \A r \in DOMAIN shock.obj :
        LET o == shock.obj[r]
            R == ShockWorldR(o, o.age)
        IN (o.growthMode = 0 /\ o.age > 0) =>
              /\ \A a \in 0..o.age : FracLeq(ShockWorldR(o, a), R)
              /\ 1000 * Min(o.age, o.lifeSeconds) <= o.growthDelay * o.lifeSeconds =>
                    R = <<o.startRadiusWorld, 1>>
              /\ o.age >= o.lifeSeconds => R = <<o.endRadiusWorld, 1>>

\* an instance with growthDelay 0.1 and exponent 2 has grown from 0.8 m to
\* 2 m over its whole life, and was still at 0.8 m at t = 0.1
C28_Witness ==
    \E r \in DOMAIN shock.obj :
        LET o == shock.obj[r]
        IN /\ o.growthMode = 0
           /\ o.growthDelay = 100 /\ o.growthExponent = 200
           /\ o.age = o.lifeSeconds
           /\ ShockWorldR(o, 2) = <<240, 1>>
           /\ FracLess(<<240, 1>>, ShockWorldR(o, 3))
           /\ ShockWorldR(o, o.age) = <<600, 1>>

-----------------------------------------------------------------------------
(* C29: collapseThenGrow with collapseAt = 0.06, collapseScale = 0.05,     *)
(* recoverAt = 0.2 and startRadius = 1.0 (life 0.5 s, so that t = 0.06 is  *)
(* age 0.03 s and t = 0.2 is age 0.1 s).  As stated: the radius at         *)
(* t = 0.06 is 0.05, the radius at t = 0.2 is 1.0, and the radius          *)
(* strictly decreases over [0, 0.06] and strictly increases over           *)
(* [0.06, 0.2].  update does not re-base the growth curve at recoverAt:   *)
(* at t = 0.2 the radius is at least 1.0, and it is 1.0 exactly when       *)
(* growthDelay >= 0.2 or endRadius = startRadius.                          *)

\* the instances built with the parameters C29 names
IsC29Ring(o) ==
    /\ o.growthMode = 1 /\ o.collapseAt = 60 /\ o.collapseScale = 50
    /\ o.recoverAt = 200 /\ o.startRadiusWorld = 300 /\ o.lifeSeconds = 50

\* down to 0.05 at t = 0.06, then up until t = 0.2, as far as o has lived
CollapsesThenRecovers(o) ==
    /\ o.age >= 3 => ShockWorldR(o, 3) = <<15, 1>>
    /\ \A a \in 0..(Min(o.age, 10) - 1) :
          IF a < 3
          THEN FracLess(ShockWorldR(o, a + 1), ShockWorldR(o, a))
          ELSE FracLess(ShockWorldR(o, a), ShockWorldR(o, a + 1))

\* C29 as stated; at t = recoverAt update is on the default growth curve,
\* which has left startRadius when growthDelay < recoverAt
C29_CollapseThenGrowExact ==
    \A r \in DOMAIN shock.obj :
        LET o == shock.obj[r]
        IN IsC29Ring(o) =>
              /\ CollapsesThenRecovers(o)
              /\ o.age >= 10 => ShockWorldR(o, 10) = <<300, 1>>

\* what update computes: the two eased phases as stated, and the value of
\* the growth curve over the whole life at t = 0.2
CollapseThenGrowJumps ==
    \A r \in DOMAIN shock.obj :
        LET o == shock.obj[r]
        IN IsC29Ring(o) =>
              /\ CollapsesThenRecovers(o)
              /\ o.age >= 10 =>
                    /\ FracLeq(<<300, 1>>, ShockWorldR(o, 10))
                    /\ ShockWorldR(o, 10) = <<300, 1>>
                          <=> (o.growthDelay >= 200 \/ o.endRadiusWorld = 300)

\* an instance with growthDelay 0 and endRadius 3.0 has reached t = 0.2:
\* its radius was 0.05 at t = 0.06 and is 1.4 now
C29_Witness ==
    \E r \in DOMAIN shock.obj :
        LET o == shock.obj[r]
        IN /\ IsC29Ring(o)
           /\ o.age = 10
           /\ o.growthDelay = 0
           /\ ShockWorldR(o, 3) = <<15, 1>>
           /\ ShockWorldR(o, 10) = <<420, 1>>

-----------------------------------------------------------------------------
(* C30: the noise volume is built at most once: the first getSharedNoise3D *)
(* call builds and caches it, every later call returns the cached object   *)
(* without building, so every ShockRing ever constructed holds the same    *)
(* texture, however many are constructed.                                  *)

C30_NoiseVolumeBuiltOnce ==
    /\ shock.noise3D.built <= 1
    /\ shock.noise3D.cached = shock.noise3D.built
    /\ shock.noise3D.built = 1 <=> shock.obj # <<>>
    /\ \A r \in DOMAIN shock.obj : shock.obj[r].noise = shock.noise3D.cached
    /\ GetSharedNoise3D(shock.noise3D).built = 1
    /\ shock.noise3D.built = 1 => GetSharedNoise3D(shock.noise3D) = shock.noise3D

\* three instances were constructed, by three constructor calls that each
\* called getSharedNoise3D: one volume was built and all three hold it
C30_Witness ==
    /\ Len(shock.obj) >= 3
    /\ shock.noise3D.built = 1
    /\ \A r \in DOMAIN shock.obj : shock.obj[r].noise = 1

-----------------------------------------------------------------------------
(* C31: both managers: in one update(dt) the pending requests are served   *)
(* before the instances are aged, and the aging loop of the same call      *)
(* ages the instance a request has just spawned: when update returns, the  *)
(* age of that instance is dt, the whole step, whatever the amount by      *)
(* which the step overshot the delay.                                      *)

\* the requests that caused their spawn in the call that led from h0 to h
FiredIn(h0, h) ==
    {rid \in DOMAIN h0.req : h0.req[rid].fired = 0 /\ h.req[rid].fired = 1}

\* the instances of m that the spawn of request rid has started
SpawnedBy(m, rid) == {r \in DOMAIN m.obj : m.obj[r].tag.rid = rid}

SpawnedAgedByDt(m, h0, h) ==
    \A rid \in FiredIn(h0, h) :
        /\ Cardinality(SpawnedBy(m, rid)) = 1
        /\ \A r \in SpawnedBy(m, rid) :
              /\ m.obj[r].born = h0.clock
              /\ m.obj[r].age = h.clock - h0.clock

C31_SpawnedInstanceAgedInSameUpdate ==
    [][/\ SpawnedAgedByDt(ico', icoHist, icoHist')
       /\ SpawnedAgedByDt(shock', shockHist, shockHist')]_vars

\* a request enqueued with delay 0.06 s has fired in an update of 0.2 s:
\* the delay was overshot by 0.14 s and the instance is 0.2 s old
C31_Witness ==
    \E rid \in DOMAIN icoHist.req :
        /\ icoHist.req[rid].fired = 1
        /\ icoHist.req[rid].firedAt = icoHist.clock
        /\ icoHist.req[rid].firedAt - icoHist.req[rid].enq - icoHist.req[rid].d0 = 14
        /\ \E r \in Range(ico.rings) :
              /\ ico.obj[r].tag.rid = rid
              /\ ico.obj[r].alive
              /\ ico.obj[r].age = 20

-----------------------------------------------------------------------------
(* C32: volumetric instance: after an update of a live instance, alive is  *)
(* false exactly when age >= lifeSeconds or the fade value computed in     *)
(* that update is <= 0.01; the fade value never increases with age, and    *)
(* the same update on the instance with the other growth mode gives the    *)
(* same alive: collapseThenGrow never makes an instance die earlier than   *)
(* the default mode with the same life and fade window.                    *)

\* o as it would be with growth mode `mode', everything else the same
WithGrowthMode(o, mode) == [o EXCEPT !.growthMode = mode]

C32_DeathByAgeOrFade ==
    \A r \in DOMAIN shock.obj :
        LET o == shock.obj[r]
        IN /\ o.age > 0 =>
                 /\ o.fade = ShockFade(o, o.age)
                 /\ ~o.alive <=> (o.age >= o.lifeSeconds \/ FadeGone(o.fade))
           /\ \A a \in 0..o.age :
                 FracLeq(Frac(o.fade[1], o.fade[2]),
                         Frac(ShockFade(o, a)[1], ShockFade(o, a)[2]))
           /\ \A dt \in RingDts : \A mode \in {0, 1} :
                 LET u == ShockRingUpdate(o, dt)
                     v == ShockRingUpdate(WithGrowthMode(o, mode), dt)
                 IN v.alive = u.alive /\ v.fade = u.fade /\ v.age = u.age

\* a collapseThenGrow instance has died of its fade value, before its
\* life was over
C32_Witness ==
    \E r \in DOMAIN shock.obj :
        LET o == shock.obj[r]
        IN /\ o.growthMode = 1
           /\ ~o.alive
           /\ o.age < o.lifeSeconds
           /\ FadeGone(o.fade)
           /\ ~FadeGone(ShockFade(o, o.age - 1))

-----------------------------------------------------------------------------
(* C33: collapseThenGrow, third phase (t >= recoverAt): the growth curve   *)
(* is re-based to the span that remains, so the radius is continuous at    *)
(* the phase boundary: whatever growthDelay and growthExponent are, the    *)
(* radius at t = recoverAt is startRadius, from there on it never          *)
(* decreases, and at t = 1 it is endRadius.                                *)

\* tr of update: the life fraction at which the third phase begins
RecoverFraction(o) ==
    FracMax(Frac(o.recoverAt, 1000),
            FracAdd(FracMin(Frac(o.collapseAt, 1000), <<95, 100>>), <<1, 100>>))

\* the radius from the start of the third phase on, as far as o has lived
GrowsFromRecover(o) ==
    \A a \in 0..o.age :
        LET t == Frac(Min(a, o.lifeSeconds), o.lifeSeconds)
        IN FracLeq(RecoverFraction(o), t) =>
              /\ FracLeq(<<o.startRadiusWorld, 1>>, ShockWorldR(o, a))
              /\ \A b \in a..o.age : FracLeq(ShockWorldR(o, a), ShockWorldR(o, b))
              /\ a >= o.lifeSeconds => ShockWorldR(o, a) = <<o.endRadiusWorld, 1>>

\* update evaluates the growth curve on t itself (C29): the radius at
\* t = recoverAt is startRadius only if the curve has not left it by then
C33_RadiusContinuousAtRecover ==
    \A r \in DOMAIN shock.obj :
        LET o == shock.obj[r]
        IN o.growthMode = 1 =>
              /\ GrowsFromRecover(o)
              /\ \A a \in 0..o.age :
                    Frac(Min(a, o.lifeSeconds), o.lifeSeconds) = RecoverFraction(o) =>
                       ShockWorldR(o, a) = <<o.startRadiusWorld, 1>>

-----------------------------------------------------------------------------
(* C34: jitter generator: for every count >= 1 and angleJitter >= 0 the    *)
(* angle of sub-instance i (0 <= i < count) differs from the evenly        *)
(* spaced angle 2 * PI * i / count by at most angleJitter radians, after   *)
(* the constructor and after every restart.  PI lies between 157/50 and    *)
(* 22/7; the lower bound makes the stated bound easier to meet, the upper  *)
(* bound makes what is proved harder to meet.                              *)

\* the angle of sub-instance k - 1 beyond its evenly spaced angle, as a
\* fraction of a turn
JitterTurn(o, k) == FracSub(o.instanceData[k], Frac(k - 1, o.instanceCount))

\* the code adds the jitter to the index i before it divides by count, so
\* it is a fraction of the spacing 2 * PI / count and not an angle: with
\* fewer than 7 sub-instances it can exceed angleJitter radians
C34_AngleWithinJitterRadians ==
    variant = "jitter" =>
        \A k \in 1..sample.instanceCount :
            /\ FracLeq(<<0, 1>>, JitterTurn(sample, k))
            /\ FracLeq(FracMul(<<314, 50>>, JitterTurn(sample, k)),
                       Frac(sample.angleJitter, 100))

\* what the fill loop guarantees: the angle is never before its evenly
\* spaced place, beyond it by at most angleJitter spacings, and so by at
\* most angleJitter radians when there are 7 sub-instances or more
AngleWithinJitterSpacings ==
    variant = "jitter" =>
        \A k \in 1..sample.instanceCount :
            /\ FracLeq(<<0, 1>>, JitterTurn(sample, k))
            /\ FracLeq(FracMul(<<sample.instanceCount, 1>>, JitterTurn(sample, k)),
                       Frac(sample.angleJitter, 100))
            /\ sample.instanceCount >= 7 =>
                  FracLeq(FracMul(<<44, 7>>, JitterTurn(sample, k)),
                          Frac(sample.angleJitter, 100))

-----------------------------------------------------------------------------
(* C35: both managers, update called again and again with dt > 0: every    *)
(* pending request eventually causes its spawn; every instance in the      *)
(* active list eventually is dead and has left the list, for the swarm     *)
(* manager into the pool; and once no spawn call follows, the pending      *)
(* queue and the active list are empty for good.  A behaviour drives one   *)
(* manager, the one `variant' names.                                       *)

\* manager m with history h has drained: nothing is pending, nothing is
\* active, every request has caused its spawn and every instance is dead
Drained(m, h) ==
    /\ m.pending = <<>> /\ m.rings = <<>>
    /\ \A rid \in DOMAIN h.req : h.req[rid].fired = 1
    /\ \A r \in DOMAIN m.obj : ~m.obj[r].alive

\* the manager that is driven has drained, the swarm manager with every
\* instance back in the pool
AllQuiet ==
    IF variant = "ico"
    THEN Drained(ico, icoHist) /\ Range(ico.pool) = DOMAIN ico.obj
    ELSE Drained(shock, shockHist)

\* the calls that spawn are finitely many: from some update on the
\* manager stays drained
C35_EverythingEventuallyDrains == <>[]AllQuiet

\* after an assembly and the updates that followed it, the two requests
\* have fired, the three instances have lived their lives and are back in
\* the pool, and nothing is pending or active
C35_Witness ==
    /\ variant = "ico"
    /\ AllQuiet
    /\ Len(icoHist.asm) >= 1
    /\ icoHist.clock >= IcoParamsLife
    /\ \A rid \in DOMAIN icoHist.req : icoHist.req[rid].fired = 1
    /\ \A r \in DOMAIN ico.obj : ~ico.obj[r].alive /\ r \in Range(ico.pool)
    /\ \E r \in DOMAIN ico.obj : ico.obj[r].tag.stage = 3

-----------------------------------------------------------------------------
(* C36: both managers: one update(dt) ages every instance that is in the   *)
(* active list when the aging loop starts exactly once by dt: the          *)
(* instances active before the call grow older by dt, the instances        *)
(* spawned from pending requests in the call are dt old, and no other      *)
(* instance changes its age; removing the dead ones during the reverse     *)
(* scan makes the loop neither step over an instance nor age one twice.    *)

\* the step from m0 (history h0) to m (history h) is an update(dt) call
AgedOnceBy(m0, h0, m, h) ==
    LET dt == h.clock - h0.clock
    IN dt > 0 =>
          /\ \A r \in Range(m0.rings) :
                m0.obj[r].alive => m.obj[r].age = m0.obj[r].age + dt
          /\ \A rid \in FiredIn(h0, h) : \A r \in SpawnedBy(m, rid) :
                m.obj[r].age = dt
          /\ \A r \in DOMAIN m0.obj :
                (/\ r \notin Range(m0.rings)
                 /\ \A rid \in FiredIn(h0, h) : r \notin SpawnedBy(m, rid)) =>
                    m.obj[r].age = m0.obj[r].age
          /\ \A r \in Range(m.rings) : m.obj[r].alive
          /\ \A r \in Range(m0.rings) :
                r \in Range(m.rings) \/ ~m.obj[r].alive

C36_EveryActiveInstanceAgedOnce ==
    [][/\ AgedOnceBy(ico, icoHist, ico', icoHist')
       /\ AgedOnceBy(shock, shockHist, shock', shockHist')]_vars

\* the last update has removed an instance that had reached its lifetime
\* and has aged an instance that follows it in the active list
C36_Witness ==
    \E r1 \in DOMAIN ico.obj : \E r2 \in Range(ico.rings) :
        /\ icoHist.clock > 0
        /\ ~ico.obj[r1].alive
        /\ ico.obj[r1].age > 0
        /\ ico.obj[r1].born + ico.obj[r1].age = icoHist.clock
        /\ ico.obj[r1].born <= ico.obj[r2].born
        /\ r1 > r2
        /\ ico.obj[r2].alive
        /\ ico.obj[r2].age > 0
        /\ ico.obj[r2].born + ico.obj[r2].age = icoHist.clock

-----------------------------------------------------------------------------
(* C37: swarm manager, between operations: every instance in the free      *)
(* pool is dead and not visible, every instance in the active list is      *)
(* alive and visible; so for the prewarmed instances, for the instances    *)
(* constructed when the pool was empty and for the released ones.          *)

C37_PoolInertActiveVisible ==
    /\ \A r \in Range(ico.pool) : ~ico.obj[r].alive /\ ~ico.obj[r].visible
    /\ \A r \in Range(ico.rings) : ico.obj[r].alive /\ ico.obj[r].visible

\* an instance constructed on an empty pool is active next to prewarmed
\* ones, and an instance that has lived and was released is in the pool
C37_Witness ==
    /\ Len(ico.obj) > poolSize
    /\ \E r \in Range(ico.rings) : r > poolSize
    /\ \E r \in Range(ico.rings) : r <= poolSize
    /\ \E r \in Range(ico.pool) : ico.obj[r].age > 0

-----------------------------------------------------------------------------
(* C38: main loop, physics enabled: in every frame, whatever the frame's   *)
(* delta, fixedStep > 0 and maxPhysicsAccum are, the fixed-step loop ends  *)
(* after at most floor(maxAccum / fixedStep) physics steps and leaves      *)
(* 0 <= accumulator < fixedStep when the updater returns, and the          *)
(* updater has called the effect manager's update exactly once, with the   *)
(* frame's dt.                                                             *)

\* s1 is the loop state a frame has led to from s0, physics enabled
FixedStepLoopBounded(s0, s1) ==
    /\ s1.steps <= s0.maxPhysicsAccum \div s0.fixedStep
    /\ 0 <= s1.accumulator
    /\ s1.accumulator < s0.fixedStep

\* with the FPS limiter on, the updater returns before the loop and
\* before shockRings.update in a frame that comes too soon
C38_FrameStepsBoundedUpdateOnce ==
    [][(variant = "loop" /\ sample'.event = "frame" /\ sample.physicsEnabled) =>
          /\ FixedStepLoopBounded(sample, sample')
          /\ sample'.updates = 1
          /\ sample'.updateDt = sample'.frameDt]_vars

\* what holds: a frame the limiter lets through runs the bounded loop and
\* calls update once with the frame's dt; a frame it stops runs nothing
FrameThroughLimiter ==
    [][(variant = "loop" /\ sample'.event = "frame") =>
          IF sample'.skipped
          THEN /\ sample.maxFPS > 0
               /\ sample'.steps = 0 /\ sample'.updates = 0
               /\ sample'.accumulator = sample.accumulator
          ELSE /\ sample.physicsEnabled => FixedStepLoopBounded(sample, sample')
               /\ sample'.updates = 1
               /\ sample'.updateDt = sample'.frameDt]_vars

-----------------------------------------------------------------------------
(* C39: FPSController keys: after any interleaving of key-down, key-up     *)
(* and fly-mode toggles (KeyF or setFlyMode), once every key is released   *)
(* isSprinting, flyUp and flyDown are all false: a modifier pressed in     *)
(* one mode and released in the other leaves no flag stuck on.             *)

AllReleased == variant = "keys" /\ sample.held = {}

\* Shift pressed on foot and released in fly mode, or Control pressed in
\* fly mode and released on foot, leaves isSprinting on
C39_NoFlagStuckWhenAllReleased ==
    AllReleased => ~sample.isSprinting /\ ~sample.flyUp /\ ~sample.flyDown

\* what holds: the two fly flags are off once every key is released
FlyFlagsOffWhenAllReleased ==
    AllReleased => ~sample.flyUp /\ ~sample.flyDown

=============================================================================
